---- MODULE Spec2Model ----
(***************************************************************************)
(* Model of the Downloader of salesforce-archivist                         *)
(* (src/src/salesforce_archivist/salesforce/download.py) together with the *)
(* usage snapshot of SalesforceApiClient (salesforce/api.py).              *)
(*                                                                         *)
(* One download() run is a main thread that submits the plan to a thread   *)
(* pool and joins it, plus max_workers workers that each execute           *)
(* download_or_wait for the work items they take from the pool's queue.    *)
(* Every access to shared state (files, Downloaded Index, usage snapshot,  *)
(* stats, lock, stop event) is a separate step of the worker that makes    *)
(* it, so every interleaving of the workers is explored.                   *)
(***************************************************************************)
EXTENDS Integers, Sequences, FiniteSets, TLC

\* ------------------------------------------------------------------ bounds
MaxWorkers == 2
PlanLen == 2
NumIds == 2
NumPaths == 2
MaxWaitSec == 2
MaxRuns == 2
MaxRounds == 2
MaxStr == 1
MaxOps == 3
MaxCalls == 6

Ids == 1..NumIds
Paths == 1..NumPaths
Workers == 1..MaxWorkers

\* ------------------------------------------------------- values and inputs
None == 0 - 1
Kinds == {"version", "attachment"}

\* the threshold of test_downloader_download_or_wait, or no threshold
ThresholdChoices == {None, 30}

\* usage snapshots the remote can report: below the threshold, and exactly
\* at it (the boundary of the wait's comparison)
UsageValues == {[used |-> 10, total |-> 100], [used |-> 30, total |-> 100]}
NoUsage == [used |-> None, total |-> None]

NoFile == [id |-> 0, full |-> FALSE]
NoStats == [total |-> 0, processed |-> 0, errors |-> 0, size |-> 0]

MsgOk == "[OK] Downloaded object"
MsgShutdown == "[ERROR] Stop signal received. Graceful shutdown."
MsgFailed == "[ERROR] Failed to download object"
NoLog == [error |-> FALSE, msg |-> "", size |-> 0]

Min(a, b) == IF a < b THEN a ELSE b
Max(a, b) == IF a > b THEN a ELSE b

\* ------------------------------------------------------------ pure helpers
\* Attachment.content_size / ContentVersion.content_size of the object
ContentSize(id) == 3 + id

\* ApiUsage.percent (whole percents: the inputs divide evenly)
Percent(u) == IF u.total > 0 THEN (u.used * 100) \div u.total ELSE 0

\* os.path.exists on a path of the data directory
ExistsAlways(fs, p) == TRUE
Exists(fs, p) == fs[p] # NoFile

\* DownloadedList.get: the recorded path of the object id, or None
IndexGet(idx, id) == idx[id]

\* DownloadedList.add: upsert by object id
IndexAdd(idx, id, p) == [idx EXCEPT ![id] = p]

\* DownloadStats.initialize
Initialize(total) == [total |-> total, processed |-> 0, errors |-> 0, size |-> 0]

\* DownloadStats.add_processed
AddProcessedFixedTotal(s, size, error) ==
    [total |-> s.total,
     processed |-> s.processed + 1,
     errors |-> IF error THEN s.errors + 1 ELSE s.errors,
     size |-> s.size + size]
AddProcessed(s, size, error) ==
    [total |-> Max(s.total, s.processed + 1),
     processed |-> s.processed + 1,
     errors |-> IF error THEN s.errors + 1 ELSE s.errors,
     size |-> s.size + size]

\* DownloadStats.combine: self += other, counter by counter
CombineNoErrors(a, b) ==
    [total |-> a.total + b.total,
     processed |-> a.processed + b.processed,
     errors |-> a.errors,
     size |-> a.size + b.size]
Combine(a, b) ==
    [total |-> a.total + b.total,
     processed |-> a.processed + b.processed,
     errors |-> a.errors + b.errors,
     size |-> a.size + b.size]

\* the except clauses of download_or_wait: exception -> (error, msg)
ErrorFlagStopOnly(exc) == exc = "stop"
ErrorFlag(exc) == exc # "none"
MessageNoShutdown(exc) == IF exc = "none" THEN MsgOk ELSE MsgFailed
Message(exc) == IF exc = "stop" THEN MsgShutdown ELSE IF exc = "fail" THEN MsgFailed ELSE MsgOk

\* SalesforceApiClient.get_api_usage: the possible outcomes of one call,
\* each the snapshot cached afterwards, whether the call returned it (ok)
\* or limits() raised, and the number of limits() round trips it made
CallsLimitsOnRefresh(cache, refresh) == refresh
CallsLimits(cache, refresh) == refresh \/ cache = NoUsage
GetApiUsage(cache, refresh) ==
    IF CallsLimits(cache, refresh)
    THEN {[ok |-> TRUE, cache |-> u, trips |-> 1] : u \in UsageValues}
             \cup {[ok |-> FALSE, cache |-> cache, trips |-> 1]}
    ELSE {[ok |-> (cache # NoUsage), cache |-> cache, trips |-> 0]}

\* Downloader._print_download_msg: reads the usage with refresh=False and
\* swallows its exception; the only state it can change is the snapshot
PrintDownloadMsg(cache) == {o.cache : o \in GetApiUsage(cache, FALSE)}

\* the refresh argument of the two usage reads of _wait_if_api_usage_limit
InitialRefresh == FALSE
LoopRefresh == TRUE

\* the guard of _wait_if_api_usage_limit: no threshold, no wait
NoThresholdIgnored(limit) == FALSE
NoThreshold(limit) == limit = None

\* the loop conditions of _wait_if_api_usage_limit
OverLimitAlways(u, limit) == Percent(u) >= 0
OverLimitStrict(u, limit) == Percent(u) > limit
OverLimit(u, limit) == Percent(u) >= limit
MoreSleepsInclusive(counter, sec) == counter <= sec
MoreSleeps(counter, sec) == counter < sec

\* the stop check of the sleep loop: self._stop_event.is_set()
StopIgnored(ev) == FALSE
StopRequested(ev) == ev

\* threading.Lock: free when no worker holds it
LockAlwaysFree(l) == TRUE
LockFree(l) == l = 0

\* ------------------------------------------------- index file helpers
\* the characters the csv module treats specially, and an ordinary one
COMMA == ","
QUOTE == "\""
CR == "\r"
LF == "\n"
PathChars == {"a", COMMA, QUOTE, CR, LF}

\* object ids are alphanumeric; a path is any text (the filename pattern
\* of the plan replaces none of the characters above but the quote, and
\* the data directory is free)
IdStrings == {[k \in 1..n |-> "x"] : n \in Ids}
PathStrings == UNION {[1..n -> PathChars] : n \in 0..MaxStr}
NoPath == <<"?">>

\* DownloadedList._data: a dict keeps its keys in insertion order and
\* assigning to a key it holds keeps the key's place
DictHas(d, id) == \E k \in 1..Len(d) : d[k].id = id
DictSetAppend(d, id, p) == Append(d, [id |-> id, path |-> p])
DictSet(d, id, p) ==
    IF DictHas(d, id)
    THEN [k \in 1..Len(d) |-> IF d[k].id = id THEN [id |-> id, path |-> p] ELSE d[k]]
    ELSE Append(d, [id |-> id, path |-> p])
\* dict.get(obj.id): the kind of obj is not looked at
DictGet(d, obj) ==
    IF DictHas(d, obj.id)
    THEN d[CHOOSE k \in 1..Len(d) : d[k].id = obj.id /\ \A j \in 1..(k - 1) : d[j].id # obj.id].path
    ELSE NoPath

\* csv.writer with the default dialect: a field is quoted when it holds the
\* delimiter, the quote character or a character of the line terminator,
\* quote characters inside it are doubled, and a row ends with CR LF
NeedsQuote(f) == \E k \in 1..Len(f) : f[k] \in {COMMA, QUOTE, CR, LF}
RECURSIVE Doubled(_)
Doubled(f) ==
    IF f = <<>> THEN <<>>
    ELSE (IF Head(f) = QUOTE THEN <<QUOTE, QUOTE>> ELSE <<Head(f)>>) \o Doubled(Tail(f))
WriteField(f) == IF NeedsQuote(f) THEN <<QUOTE>> \o Doubled(f) \o <<QUOTE>> ELSE f
WriteRow(a, b) == WriteField(a) \o <<COMMA>> \o WriteField(b) \o <<CR, LF>>
HeaderRow == WriteRow(<<"I", "d">>, <<"P", "a", "t", "h", " ", "o", "n", " ", "d", "i", "s", "k">>)

\* DownloadedList.save: the first n rows of the index written after the
\* header, and the whole file
RECURSIVE RowsText(_, _)
RowsText(d, n) ==
    IF n = 0 THEN <<>> ELSE RowsText(d, n - 1) \o WriteRow(d[n].id, d[n].path)
CsvText(d) == HeaderRow \o RowsText(d, Len(d))

\* open(path) in text mode with the default newline: CR LF and a lone CR
\* are both read as LF
RECURSIVE Translate(_)
Translate(t) ==
    IF t = <<>> THEN <<>>
    ELSE IF Head(t) = CR
    THEN <<LF>> \o Translate(IF Len(t) > 1 /\ t[2] = LF THEN Tail(Tail(t)) ELSE Tail(t))
    ELSE <<Head(t)>> \o Translate(Tail(t))

\* the reader is fed line by line: each line's characters (its LF
\* included) and then the end-of-line mark
EOL == "EOL"
RECURSIVE WithEol(_)
WithEol(t) ==
    IF t = <<>> THEN <<>>
    ELSE IF Head(t) = LF THEN <<LF, EOL>> \o WithEol(Tail(t))
    ELSE IF Len(t) = 1 THEN <<Head(t), EOL>>
    ELSE <<Head(t)>> \o WithEol(Tail(t))

\* csv.reader with the default dialect (not strict): the state machine of
\* parse_process_char
ReaderStart == [st |-> "START_RECORD", field |-> <<>>, row |-> <<>>, rows |-> <<>>, err |-> FALSE]
SaveFieldTo(s, st) == [s EXCEPT !.row = Append(s.row, s.field), !.field = <<>>, !.st = st]
AddChar(s, c, st) == [s EXCEPT !.field = Append(s.field, c), !.st = st]
AfterEnd(c) == IF c = EOL THEN "START_RECORD" ELSE "EAT_CRNL"
StartField(s, c) ==
    IF c \in {LF, CR, EOL} THEN SaveFieldTo(s, AfterEnd(c))
    ELSE IF c = QUOTE THEN [s EXCEPT !.st = "IN_QUOTED_FIELD"]
    ELSE IF c = COMMA THEN SaveFieldTo(s, "START_FIELD")
    ELSE AddChar(s, c, "IN_FIELD")
ProcessChar(s, c) ==
    CASE s.st = "START_RECORD" ->
            IF c = EOL THEN s
            ELSE IF c \in {LF, CR} THEN [s EXCEPT !.st = "EAT_CRNL"]
            ELSE StartField(s, c)
      [] s.st = "START_FIELD" -> StartField(s, c)
      [] s.st = "IN_FIELD" ->
            IF c \in {LF, CR, EOL} THEN SaveFieldTo(s, AfterEnd(c))
            ELSE IF c = COMMA THEN SaveFieldTo(s, "START_FIELD")
            ELSE AddChar(s, c, "IN_FIELD")
      [] s.st = "IN_QUOTED_FIELD" ->
            IF c = EOL THEN s
            ELSE IF c = QUOTE THEN [s EXCEPT !.st = "QUOTE_IN_QUOTED_FIELD"]
            ELSE AddChar(s, c, "IN_QUOTED_FIELD")
      [] s.st = "QUOTE_IN_QUOTED_FIELD" ->
            IF c = QUOTE THEN AddChar(s, c, "IN_QUOTED_FIELD")
            ELSE IF c = COMMA THEN SaveFieldTo(s, "START_FIELD")
            ELSE IF c \in {LF, CR, EOL} THEN SaveFieldTo(s, AfterEnd(c))
            ELSE AddChar(s, c, "IN_FIELD")
      [] OTHER ->
            IF c \in {LF, CR} THEN s
            ELSE IF c = EOL THEN [s EXCEPT !.st = "START_RECORD"]
            ELSE [s EXCEPT !.err = TRUE]

\* a row is complete when the reader is back at START_RECORD after a line;
\* at the end of the file a pending field closes the last row
EmitRow(s) == [s EXCEPT !.rows = Append(s.rows, s.row), !.row = <<>>, !.st = "START_RECORD"]
RECURSIVE ReadTokens(_, _)
ReadTokens(s, t) ==
    IF s.err THEN s
    ELSE IF t = <<>>
    THEN IF s.st # "START_RECORD" /\ (s.field # <<>> \/ s.st = "IN_QUOTED_FIELD")
         THEN EmitRow(SaveFieldTo(s, "START_RECORD"))
         ELSE s
    ELSE LET n == ProcessChar(s, Head(t))
         IN  ReadTokens(IF Head(t) = EOL /\ n.st = "START_RECORD" /\ ~n.err THEN EmitRow(n) ELSE n,
                        Tail(t))
ReadCsv(text) == ReadTokens(ReaderStart, WithEol(Translate(text)))

\* DownloadedList.load_data_from_file into the index d: next(reader) skips
\* the header, every other row is added as (row[0], row[1]); a file
\* without a first row or a row with fewer than two fields raises
RECURSIVE AddRows(_, _, _)
AddRows(d, rows, k) ==
    IF k > Len(rows) THEN [ok |-> TRUE, data |-> d]
    ELSE IF Len(rows[k]) < 2 THEN [ok |-> FALSE, data |-> d]
    ELSE AddRows(DictSet(d, rows[k][1], rows[k][2]), rows, k + 1)
LoadDataFromFile(d, text) ==
    LET r == ReadCsv(text)
        a == AddRows(d, r.rows, 2)
    IN  IF r.rows = <<>> THEN [ok |-> FALSE, data |-> d]
        ELSE [ok |-> a.ok /\ ~r.err, data |-> a.data]

\* ------------------------------------------------------- validator helpers
\* no ValidatedFile (one with neither checksum nor size cannot be built)
NoRec == [checksum |-> None, content_size |-> None]
NoVStats == [total |-> 0, processed |-> 0, invalid |-> 0]

\* DownloadValidator._calculate_md5: the digest of the file's content,
\* different for different contents
CalculateMd5(f) == 10 * f.id + (IF f.full THEN 1 ELSE 0)

\* DownloadValidator._calculate_size: a partly written file is shorter
CalculateSize(f) == IF f.full THEN ContentSize(f.id) ELSE 1

\* ContentVersion.checksum: the digest of the object's complete content
Checksum(id) == CalculateMd5([id |-> id, full |-> TRUE])

\* the value the server records for the object, by kind
ServerValue(k, id) == IF k = "version" THEN Checksum(id) ELSE ContentSize(id)

\* the value the validator computes from the file, by kind
ComputeValue(k, f) == IF k = "version" THEN CalculateMd5(f) ELSE CalculateSize(f)

\* the value of a cached record the validator compares, by kind
CachedValue(k, r) == IF k = "version" THEN r.checksum ELSE r.content_size

\* the ValidatedFile stored after computing a value: a version keeps the
\* computed checksum, an attachment the size the server records
NewRecord(k, id, value) ==
    IF k = "version"
    THEN [checksum |-> value, content_size |-> ContentSize(id)]
    ELSE [checksum |-> None, content_size |-> ContentSize(id)]

\* ValidatedList.get / ValidatedList.add: keyed by path
ValidatedGetNothing(idx, p) == NoRec
ValidatedGet(idx, p) == idx[p]
ValidatedAddDropped(idx, p, r) == idx
ValidatedAdd(idx, p, r) == [idx EXCEPT ![p] = r]

\* ValidatedList.save / load_data_from_file, field by field: a row holds
\* the text of each value and the empty text for a missing one, and an
\* empty text is read back as a missing value
EmptyField == 0 - 2
NoRow == [checksum |-> EmptyField, content_size |-> EmptyField]
SaveField(v) == IF v # None THEN v ELSE EmptyField
LoadField(t) == IF t # EmptyField THEN t ELSE None
SaveValidatedList(idx) ==
    [p \in DOMAIN idx |->
        [checksum |-> SaveField(idx[p].checksum),
         content_size |-> SaveField(idx[p].content_size)]]
LoadValidatedList(rows) ==
    [p \in DOMAIN rows |->
        [checksum |-> LoadField(rows[p].checksum),
         content_size |-> LoadField(rows[p].content_size)]]

\* ValidationStats.initialize / add_processed
VInitialize(total) == [total |-> total, processed |-> 0, invalid |-> 0]
VAddProcessedNoInvalid(s, invalid) ==
    [total |-> Max(s.total, s.processed + 1),
     processed |-> s.processed + 1,
     invalid |-> s.invalid]
VAddProcessed(s, invalid) ==
    [total |-> Max(s.total, s.processed + 1),
     processed |-> s.processed + 1,
     invalid |-> IF invalid THEN s.invalid + 1 ELSE s.invalid]

\* ValidationStats.combine: self += other, counter by counter
VCombine(a, b) ==
    [total |-> a.total + b.total,
     processed |-> a.processed + b.processed,
     invalid |-> a.invalid + b.invalid]

\* ------------------------------------------- validated index file helpers
\* a ValidatedFile is [path, checksum, content_size]: a checksum is a
\* hexadecimal digest or missing (NoChecksum), a size a byte count or
\* missing (None)
NoChecksum == <<"?">>
ChecksumStrings == {<<"a">>, <<"1", "f">>}
SizeValues == {0, 10}
NoValidatedFile == [path |-> NoPath, checksum |-> NoChecksum, content_size |-> None]

\* ValidatedFile.__init__: a record with neither value raises ValueError
ValidatedFileAccepted(checksum, size) == ~(checksum = NoChecksum /\ size = None)

\* ValidatedFile.__eq__: size, checksum and path are compared
ValidatedFileEq(a, b) ==
    /\ a.content_size = b.content_size
    /\ a.checksum = b.checksum
    /\ a.path = b.path

\* ValidatedList._data, a dict keyed by path in insertion order: add and get
ListHasPath(d, p) == \E k \in 1..Len(d) : d[k].path = p
ListAddFile(d, f) ==
    IF ListHasPath(d, f.path)
    THEN [k \in 1..Len(d) |-> IF d[k].path = f.path THEN f ELSE d[k]]
    ELSE Append(d, f)
ListGetFile(d, p) ==
    IF ListHasPath(d, p)
    THEN d[CHOOSE k \in 1..Len(d) : d[k].path = p /\ \A j \in 1..(k - 1) : d[j].path # p]
    ELSE NoValidatedFile

\* str(int) as the csv writer applies it to a size, and int(str) as
\* load_data_from_file applies it to a field (a text that is not a number
\* raises ValueError)
DigitChars == <<"0", "1", "2", "3", "4", "5", "6", "7", "8", "9">>
RECURSIVE Str(_)
Str(n) ==
    IF n < 10 THEN <<DigitChars[n + 1]>>
    ELSE Str(n \div 10) \o <<DigitChars[(n % 10) + 1]>>
IsDigit(c) == \E k \in 1..10 : DigitChars[k] = c
DigitOf(c) == (CHOOSE k \in 1..10 : DigitChars[k] = c) - 1
IsInt(t) == t # <<>> /\ \A k \in 1..Len(t) : IsDigit(t[k])
RECURSIVE ParseInt(_)
ParseInt(t) ==
    IF Len(t) = 1 THEN DigitOf(t[1])
    ELSE 10 * ParseInt(SubSeq(t, 1, Len(t) - 1)) + DigitOf(t[Len(t)])

\* ValidatedList.save: a missing value is written as the empty text
ChecksumField(c) == IF c # NoChecksum THEN c ELSE <<>>
SizeField(n) == IF n # None THEN Str(n) ELSE <<>>
WriteRow3(a, b, c) ==
    WriteField(a) \o <<COMMA>> \o WriteField(b) \o <<COMMA>> \o WriteField(c) \o <<CR, LF>>
ValidatedHeaderRow ==
    WriteRow3(<<"C", "h", "e", "c", "k", "s", "u", "m">>,
              <<"C", "o", "n", "t", "e", "n", "t", " ", "S", "i", "z", "e">>,
              <<"P", "a", "t", "h">>)
RECURSIVE ValidatedRowsText(_, _)
ValidatedRowsText(d, n) ==
    IF n = 0 THEN <<>>
    ELSE ValidatedRowsText(d, n - 1) \o
         WriteRow3(ChecksumField(d[n].checksum), SizeField(d[n].content_size), d[n].path)
ValidatedCsvText(d) == ValidatedHeaderRow \o ValidatedRowsText(d, Len(d))

\* ValidatedList.load_data_from_file into the index d: next(reader) skips
\* the header; of every other row an empty first or second field is a
\* missing value, the second field is converted with int, the record is
\* built and added under row[2]; a short row, a size that is no number or
\* a record with neither value raises
RECURSIVE AddValidatedRows(_, _, _)
AddValidatedRows(d, rows, k) ==
    IF k > Len(rows) THEN [ok |-> TRUE, data |-> d]
    ELSE IF Len(rows[k]) < 3 THEN [ok |-> FALSE, data |-> d]
    ELSE IF rows[k][2] # <<>> /\ ~IsInt(rows[k][2]) THEN [ok |-> FALSE, data |-> d]
    ELSE LET checksum == IF rows[k][1] # <<>> THEN rows[k][1] ELSE NoChecksum
             size == IF rows[k][2] # <<>> THEN ParseInt(rows[k][2]) ELSE None
         IN  IF ~ValidatedFileAccepted(checksum, size) THEN [ok |-> FALSE, data |-> d]
             ELSE AddValidatedRows(
                      ListAddFile(d, [path |-> rows[k][3], checksum |-> checksum,
                                      content_size |-> size]),
                      rows, k + 1)
LoadValidatedFile(d, text) ==
    LET r == ReadCsv(text)
        a == AddValidatedRows(d, r.rows, 2)
    IN  IF r.rows = <<>> THEN [ok |-> FALSE, data |-> d]
        ELSE [ok |-> a.ok /\ ~r.err, data |-> a.data]

\* --------------------------------------------------- download plan helpers
\* posixpath.join: a component that starts with the separator replaces
\* what precedes it, otherwise it is appended after one separator
SEP == "/"
Join(a, b) ==
    IF b # <<>> /\ b[1] = SEP THEN b
    ELSE IF a = <<>> \/ a[Len(a)] = SEP THEN a \o b
    ELSE a \o <<SEP>> \o b
PathJoin(a, b, c, d) == Join(Join(Join(a, b), c), d)

\* the data directory of the archived object type and the literal "files"
DataDir == <<"o">>
FilesDir == <<"f", "i", "l", "e", "s">>

\* re.sub(r'[/\\?%*:|"<>]', "-", text) of the filename properties
Hostile == {"/", "\\", "?", "%", "*", ":", "|", QUOTE, "<", ">"}
Sanitize(t) == [k \in 1..Len(t) |-> IF t[k] \in Hostile THEN "-" ELSE t[k]]

\* ContentVersion.filename and Attachment.filename
VersionFilename(v) == v.id \o <<"_">> \o Sanitize(v.title) \o <<".">> \o v.extension
AttachmentFilename(a) == a.id \o <<"_">> \o Sanitize(a.name)

\* ContentDocumentLink.download_dir_name: the configured field's value, or
\* the linked entity's id when there is none (NoDir)
NoDir == <<"?">>
DownloadDirName(link) ==
    IF link.download_dir_name # NoDir THEN link.download_dir_name ELSE link.linked_entity_id

\* the objects of the metadata lists: versions of two documents,
\* attachments of two parents, links of two entities to the documents with
\* any value of the directory name field
VersionObjects ==
    {[id |-> <<"v">>, document_id |-> <<"d">>, title |-> <<"t">>, extension |-> <<"e">>],
     [id |-> <<"w">>, document_id |-> <<"d">>, title |-> <<"/">>, extension |-> <<"e">>],
     [id |-> <<"x">>, document_id |-> <<"e">>, title |-> <<>>, extension |-> <<"e">>]}
AttachmentObjects ==
    {[id |-> <<"a">>, parent_id |-> <<"p">>, name |-> <<"n">>],
     [id |-> <<"b">>, parent_id |-> <<"p">>, name |-> <<"/">>],
     [id |-> <<"c">>, parent_id |-> <<"q">>, name |-> <<>>]}
DirNames == {NoDir} \cup UNION {[1..n -> {"a", SEP}] : n \in 0..MaxStr}
LinkObjects ==
    {k \in [linked_entity_id : {<<"l">>, <<"m">>}, content_document_id : {<<"d">>, <<"e">>},
            download_dir_name : DirNames] :
        k.linked_entity_id = <<"m">> => k.content_document_id = <<"d">>}

\* ContentDocumentLinkList.add_link: a dict keyed by entity and document
SameLink(a, b) ==
    /\ a.linked_entity_id = b.linked_entity_id
    /\ a.content_document_id = b.content_document_id
AddLink(d, link) ==
    IF \E k \in 1..Len(d) : SameLink(d[k], link)
    THEN [k \in 1..Len(d) |-> IF SameLink(d[k], link) THEN link ELSE d[k]]
    ELSE Append(d, link)

\* AttachmentList.add_attachment: a dict keyed by id
AddAttachment(d, a) ==
    IF \E k \in 1..Len(d) : d[k].id = a.id
    THEN [k \in 1..Len(d) |-> IF d[k].id = a.id THEN a ELSE d[k]]
    ELSE Append(d, a)

\* ContentVersionList.get_content_versions_for_link: the versions of the
\* link's document, in the iteration order ord of the set of their ids
IsVersionOf(v, link) == v.document_id = link.content_document_id
RECURSIVE GetContentVersionsForLink(_, _, _)
GetContentVersionsForLink(versions, link, ord) ==
    IF ord = <<>> THEN <<>>
    ELSE (IF Head(ord) \in versions /\ IsVersionOf(Head(ord), link) THEN <<Head(ord)>> ELSE <<>>)
         \o GetContentVersionsForLink(versions, link, Tail(ord))

\* DownloadContentVersionList._generate_download_list, first call: for
\* every link, for every version of its document, the version and its path
VersionEntry(link, v) ==
    [obj |-> v.id, path |-> PathJoin(DataDir, FilesDir, DownloadDirName(link), VersionFilename(v))]
RECURSIVE GenerateVersionList(_, _, _, _)
GenerateVersionList(links, versions, ord, n) ==
    IF n = 0 THEN <<>>
    ELSE LET vs == GetContentVersionsForLink(versions, links[n], ord)
         IN  GenerateVersionList(links, versions, ord, n - 1)
             \o [k \in 1..Len(vs) |-> VersionEntry(links[n], vs[k])]

\* DownloadAttachmentList._generate_download_list, first call
AttachmentEntry(a) ==
    [obj |-> a.id, path |-> PathJoin(DataDir, FilesDir, a.parent_id, AttachmentFilename(a))]
GenerateAttachmentList(atts) == [k \in 1..Len(atts) |-> AttachmentEntry(atts[k])]

\* if self._to_download is None: the list is generated on the first call
\* only (NoPlan: None)
NoPlan == [generated |-> FALSE, list |-> <<>>]
NotGeneratedOrEmpty(td) == ~td.generated \/ td.list = <<>>
NotGenerated(td) == ~td.generated

\* ------------------------------------------------------------------- state
VARIABLES
    plan,                   \* the download list: sequence of [id, path]
    kind,                   \* the kind of the plan's objects
    max_workers,            \* Downloader._max_workers
    max_api_usage_percent,  \* Downloader._max_api_usage_percent (None: unset)
    wait_sec,               \* Downloader._wait_sec
    files,                  \* the data directory: path -> file
    downloaded,             \* DownloadedList._data: id -> path or None
    api_usage,              \* the client's cached usage snapshot
    stats,                  \* Downloader._stats
    stop_event,             \* Downloader._stop_event
    lock,                   \* Downloader._lock: holder or 0
    mpc,                    \* position of the thread that called download()
    submitted,              \* number of plan entries submitted so far
    queue,                  \* the pool's pending work items (plan indices)
    run,                    \* number of the current download() call
    pc,                     \* position of each worker
    cur,                    \* plan index of the work item a worker runs
    usage,                  \* local usage of _wait_if_api_usage_limit
    counter,                \* local counter of the sleep loop
    rec,                    \* local downloaded_version (its path, or None)
    exc,                    \* exception caught by download_or_wait
    tmp,                    \* stats as read by add_processed
    \* ---- history (observations only, never read by the program)
    files0,                 \* the data directory when the run began
    downloaded0,            \* the index when the run began
    fetches,                \* remote fetches per plan index in this run
    started,                \* plan indices whose processing has started
    started_at_int,         \* started, as it was when the interrupt arrived
    interrupted,            \* a KeyboardInterrupt was raised in this run
    log,                    \* per plan index: what the bookkeeping recorded
    logged,                 \* plan indices whose bookkeeping is done
    mutated,                \* plan indices that changed a file or the index
    dest_existed,           \* destination held a file when the item began
    rec_at_start,           \* index record of the object when the item began
    slept,                  \* one-second sleeps of the current wait
    round_slept,            \* sleeps since the last usage read
    rounds,                 \* refresh=True reads of the current wait
    raised,                 \* per plan index: the exception its procedure raised
    cancelled_in_wait,      \* stop event was set while the worker was in the sleep loop
    prev_downloaded,        \* the index when the previous run returned
    prev_errors             \* errors of the previous run

VARIABLES
    validated,              \* ValidatedList._data: path -> record or NoRec
    vstats,                 \* DownloadValidator._stats
    vlock,                  \* DownloadValidator._lock: holder or 0
    vmpc,                   \* position of the thread that called validate()
    vsubmitted,             \* number of plan entries submitted so far
    vqueue,                 \* the pool's pending work items (plan indices)
    vrun,                   \* number of the current validate() call
    vpc,                    \* position of each worker
    vcur,                   \* plan index of the work item a worker runs
    valid,                  \* local valid of _validate_version/_attachment
    cached,                 \* local validated (the cached record, or NoRec)
    computed,               \* local checksum / size computed from the file
    vtmp,                   \* stats as read by add_processed
    \* ---- history (observations only, never read by the program)
    validated0,             \* the Validated Index when the run began
    hashed,                 \* per plan index: reads of the file (md5 or size)
    verdict,                \* per plan index: what validate_object returned
    vlogged,                \* plan indices whose bookkeeping is done
    vstarted,               \* plan indices whose validation has started
    vstarted_at_int,        \* vstarted, as it was when the interrupt arrived
    vinterrupted,           \* a KeyboardInterrupt was raised in this run
    vraised,                \* plan indices whose check raised an exception
    prev_fresh,             \* plan indices the previous run found valid uncached
    prev_verdict            \* per plan index: the previous run's verdict, uncached

VARIABLES
    data,                   \* DownloadedList._data: records in insertion order
    file_text,              \* the index file: its characters
    lpc,                    \* position of the caller of the index operations
    written,                \* lines save() has written so far
    fresh,                  \* outcome of loading the file into a fresh index
    \* ---- history (observations only, never read by the program)
    last,                   \* per object id: the path of its most recent add
    saved_data,             \* the index as of the last completed save()
    replaced,               \* an add has replaced the record of an id
    ops                     \* number of add and load operations so far

VARIABLES
    saves,                  \* save() calls made by the current run's wrapper
    downloaded_file,        \* the Downloaded Index as last saved
    validated_file          \* the Validated Index as last saved

VARIABLES
    vl_data,                \* ValidatedList._data: records in insertion order
    vl_file,                \* validated_files.csv: its characters
    vl_fresh,               \* outcome of loading the file into a fresh index
    \* ---- history (observations only, never read by the program)
    vl_saved,               \* the index as of the last save()
    vl_rejected,            \* a ValidatedFile was refused at construction
    vl_ops                  \* number of operations so far

VARIABLES
    st,                     \* two DownloadStats objects: name -> counters
    vst,                    \* two ValidationStats objects: name -> counters
    st_ops,                 \* number of stats operations so far
    \* ---- history (observations only, never read by the program)
    st_last                 \* the last stats operation and the objects before it

VARIABLES
    pl_kind,                \* class of the download list object, once built
    pl_links,               \* ContentDocumentLinkList._data, in insertion order
    pl_versions,            \* ContentVersionList: the versions it holds
    pl_atts,                \* AttachmentList._data, in insertion order
    to_download,            \* the download list's _to_download (NoPlan: None)
    \* ---- history (observations only, never read by the program)
    pl_first,               \* the first generation: its result and its inputs
    pl_yield,               \* what the last iteration yielded
    pl_count,               \* what the last len() returned
    pl_changed,             \* a metadata list changed after the generation
    pl_ops                  \* number of additions to the metadata lists so far

VARIABLES
    \* ---- history (observations only, never read by the program)
    cl_last,                \* the last get_api_usage call: arguments and outcome
    cl_ops                  \* number of get_api_usage calls so far

config == <<plan, kind, max_workers, max_api_usage_percent, wait_sec>>
began == <<files0, downloaded0>>
shared == <<files, downloaded, api_usage, stats, stop_event, lock>>
main == <<mpc, submitted, queue, run>>
locals == <<pc, cur, usage, counter, rec, exc, tmp>>
waithist == <<slept, round_slept, rounds, cancelled_in_wait>>
itemhist == <<fetches, started, log, logged, mutated, dest_existed, rec_at_start, raised>>
runhist == <<started_at_int, interrupted, prev_downloaded, prev_errors>>
vshared == <<validated, vstats, vlock>>
vmain == <<vmpc, vsubmitted, vqueue, vrun>>
vlocals == <<vpc, vcur, valid, cached, computed, vtmp>>
vitemhist == <<validated0, hashed, verdict, vlogged, vstarted, vraised, prev_fresh, prev_verdict>>
vrunhist == <<vstarted_at_int, vinterrupted>>
validator == <<vshared, vmain, vlocals, vitemhist, vrunhist>>
persist == <<saves, downloaded_file, validated_file>>
listops == <<data, file_text, lpc, written, fresh, last, saved_data, replaced, ops>>
vlist == <<vl_data, vl_file, vl_fresh, vl_saved, vl_rejected, vl_ops>>
statops == <<st, vst, st_ops, st_last>>
planops == <<pl_kind, pl_links, pl_versions, pl_atts, to_download, pl_first, pl_yield, pl_count, pl_changed, pl_ops>>
clientops == <<cl_last, cl_ops>>
library == <<vlist, statops, planops, clientops>>
downloader == <<max_api_usage_percent, wait_sec, began, downloaded, api_usage, stats,
                stop_event, lock, main, locals, waithist, itemhist, runhist>>
inputs == <<plan, kind, max_workers, files>>
vars == <<config, began, shared, main, locals, waithist, itemhist, runhist, validator, persist, listops, library>>

Pool == 1..max_workers
WaitPcs == {"wait", "for"}
DownloadPcs == {"get", "exists", "fetch", "write", "add"}
Item(w) == plan[cur[w]]

FullFiles == {[id |-> i, full |-> TRUE] : i \in Ids}

\* The plans: PlanLen entries (object id, destination path).  Ids and paths
\* are interchangeable, so the first entry is object 1 at path 1.  A
\* destination path embeds the object id (the filename starts with it), so
\* distinct entries have distinct paths and distinct objects never share one:
\* an object may appear under several paths (a version linked to several
\* entities), a path belongs to one object.
Plans ==
    {pl \in [1..PlanLen -> [id : Ids, path : Paths]] :
        /\ pl[1] = [id |-> 1, path |-> 1]
        /\ \A i, j \in 1..PlanLen : i # j => pl[i].path # pl[j].path}
PlanIds(pl) == {pl[i].id : i \in 1..PlanLen}

\* the objects whose files live at path p: the plan's object for a path of
\* the plan, any object of the plan for another path
Owners(pl, p) ==
    LET o == {pl[i].id : i \in {j \in 1..PlanLen : pl[j].path = p}}
    IN  IF o = {} THEN PlanIds(pl) ELSE o

\* data directories and Downloaded Indexes that earlier runs can have left:
\* any subset of the files, each complete; for each object of the plan no
\* record or a record at one of its paths, whether or not the file is
\* still there
InitialFiles(pl) ==
    {f \in [Paths -> {NoFile} \cup FullFiles] :
        \A p \in Paths : f[p] # NoFile => f[p].id \in Owners(pl, p)}
InitialIndexes(pl) ==
    {d \in [Ids -> Paths \cup {None}] :
        \A i \in Ids : d[i] # None => i \in PlanIds(pl) /\ i \in Owners(pl, d[i])}
EmptyFiles == [p \in Paths |-> NoFile]
EmptyIndex == [i \in Ids |-> None]

\* the files a validation can meet at a path: none, the complete content
\* of any object, or the partly written content of the path's object
ValidatedFiles(pl) ==
    {f \in [Paths -> {NoFile} \cup [id : Ids, full : BOOLEAN]] :
        \A p \in Paths :
            (f[p] # NoFile /\ ~f[p].full) => f[p].id \in Owners(pl, p)}

\* the Validated Indexes earlier validations can have left: per path no
\* record, or the record stored when the object at that path was validated
\* (for a version the checksum computed then from whatever file was there,
\* for an attachment the size the server recorded then)
CachedRecords(k, id) ==
    IF k = "version"
    THEN {[checksum |-> Checksum(i), content_size |-> ContentSize(id)] : i \in Ids}
    ELSE {[checksum |-> None, content_size |-> ContentSize(i)] : i \in Ids}
PlanObject(pl, p) == (CHOOSE i \in 1..PlanLen : pl[i].path = p)
InitialValidated(pl, k) ==
    {v \in [Paths -> {NoRec} \cup UNION {CachedRecords(k, i) : i \in Ids}] :
        \A p \in Paths :
            v[p] # NoRec =>
                /\ \E i \in 1..PlanLen : pl[i].path = p
                /\ v[p] \in CachedRecords(k, pl[PlanObject(pl, p)].id)}
EmptyValidated == [p \in Paths |-> NoRec]

\* -------------------------------------------------------------------- Init
\* everything but the inputs: the state right after Downloader.__init__ and
\* DownloadStats.initialize(len(plan)), with a client that has no snapshot
InitLocals ==
    /\ api_usage = NoUsage
    /\ stats = Initialize(PlanLen)
    /\ stop_event = FALSE
    /\ lock = 0
    /\ submitted = 0
    /\ queue = <<>>
    /\ run = 1
    /\ pc = [w \in Workers |-> "idle"]
    /\ cur = [w \in Workers |-> 0]
    /\ usage = [w \in Workers |-> NoUsage]
    /\ counter = [w \in Workers |-> 0]
    /\ rec = [w \in Workers |-> None]
    /\ exc = [w \in Workers |-> "none"]
    /\ tmp = [w \in Workers |-> NoStats]
    /\ fetches = [i \in 1..PlanLen |-> 0]
    /\ started = {}
    /\ started_at_int = {}
    /\ interrupted = FALSE
    /\ log = [i \in 1..PlanLen |-> NoLog]
    /\ logged = {}
    /\ mutated = {}
    /\ dest_existed = [i \in 1..PlanLen |-> FALSE]
    /\ rec_at_start = [i \in 1..PlanLen |-> None]
    /\ slept = [w \in Workers |-> 0]
    /\ round_slept = [w \in Workers |-> 0]
    /\ rounds = [w \in Workers |-> 0]
    /\ raised = [i \in 1..PlanLen |-> "none"]
    /\ cancelled_in_wait = [w \in Workers |-> FALSE]
    /\ prev_downloaded = [i \in Ids |-> None]
    /\ prev_errors = 0

\* the state right after DownloadValidator.__init__ and
\* ValidationStats.initialize(len(plan)), the Validated Index aside
InitVLocals ==
    /\ vstats = VInitialize(PlanLen)
    /\ vlock = 0
    /\ vsubmitted = 0
    /\ vqueue = <<>>
    /\ vrun = 1
    /\ vpc = [w \in Workers |-> "idle"]
    /\ vcur = [w \in Workers |-> 0]
    /\ valid = [w \in Workers |-> TRUE]
    /\ cached = [w \in Workers |-> NoRec]
    /\ computed = [w \in Workers |-> None]
    /\ vtmp = [w \in Workers |-> NoVStats]
    /\ hashed = [i \in 1..PlanLen |-> 0]
    /\ verdict = [i \in 1..PlanLen |-> "none"]
    /\ vlogged = {}
    /\ vstarted = {}
    /\ vstarted_at_int = {}
    /\ vinterrupted = FALSE
    /\ vraised = {}
    /\ prev_fresh = {}
    /\ prev_verdict = [i \in 1..PlanLen |-> "none"]

\* no operation on a DownloadedList of its own is in progress
NoFresh == [done |-> FALSE, ok |-> FALSE, data |-> <<>>]
InitList ==
    /\ data = <<>>
    /\ file_text = CsvText(<<>>)
    /\ written = 0
    /\ fresh = NoFresh
    /\ last = [i \in IdStrings |-> NoPath]
    /\ saved_data = <<>>
    /\ replaced = FALSE
    /\ ops = 0
ListOff == InitList /\ lpc = "off"

\* a ValidatedList of its own: empty, its file holding the header only
InitVList ==
    /\ vl_data = <<>>
    /\ vl_file = ValidatedCsvText(<<>>)
    /\ vl_fresh = NoFresh
    /\ vl_saved = <<>>
    /\ vl_rejected = FALSE
    /\ vl_ops = 0

\* two stats objects of each class as their constructors leave them
StatObjs == {"a", "b"}
NoStatOp == [op |-> "none", cls |-> "none", obj |-> "a", other |-> "a", st |-> <<>>, vst |-> <<>>]
InitStats ==
    /\ st = [o \in StatObjs |-> NoStats]
    /\ vst = [o \in StatObjs |-> NoVStats]
    /\ st_ops = 0
    /\ st_last = NoStatOp

\* empty metadata lists and no download list object yet
NoFirst == [done |-> FALSE, entries |-> <<>>, links |-> <<>>, versions |-> {}, atts |-> <<>>]
NoYield == [done |-> FALSE, entries |-> <<>>, changed |-> FALSE]
InitPlan ==
    /\ pl_kind = "none"
    /\ pl_links = <<>>
    /\ pl_versions = {}
    /\ pl_atts = <<>>
    /\ to_download = NoPlan
    /\ pl_first = NoFirst
    /\ pl_yield = NoYield
    /\ pl_count = None
    /\ pl_changed = FALSE
    /\ pl_ops = 0

\* no get_api_usage call has been made on the client by itself
NoCall == [called |-> FALSE, refresh |-> FALSE, before |-> NoUsage, ok |-> FALSE, after |-> NoUsage, trips |-> 0, remote |-> NoUsage]
InitClient ==
    /\ cl_last = NoCall
    /\ cl_ops = 0

\* the objects the program's classes are exercised on by themselves
InitLibrary == InitVList /\ InitStats /\ InitPlan /\ InitClient

\* no validate() call is in progress
ValidatorOff ==
    /\ InitVLocals
    /\ vmpc = "off"
    /\ validated = EmptyValidated
    /\ validated0 = validated

\* the index files hold what the indexes were loaded from, and the
\* wrapper of the run has not saved yet
InitPersist ==
    /\ saves = 0
    /\ downloaded_file = downloaded
    /\ validated_file = SaveValidatedList(validated)

\* a download() call begins, no validate() call is in progress
InitRest ==
    /\ InitLocals
    /\ mpc = "submit"
    /\ ValidatorOff
    /\ ListOff
    /\ InitLibrary

\* inputs without a usage threshold: every plan over every directory and
\* index, one worker or several (the wait interval is not read)
InitFiles ==
    /\ max_api_usage_percent = None
    /\ wait_sec = MaxWaitSec
    /\ plan \in Plans
    /\ kind \in Kinds
    /\ max_workers \in Workers
    /\ files \in InitialFiles(plan)
    /\ downloaded \in InitialIndexes(plan)
    /\ files0 = files
    /\ downloaded0 = downloaded

\* inputs with a usage threshold: every wait interval, over a plan of
\* distinct objects, an empty directory and an empty index (the wait reads
\* none of them)
InitQuota ==
    /\ max_api_usage_percent \in ThresholdChoices \ {None}
    /\ wait_sec \in 0..MaxWaitSec
    /\ plan = [i \in 1..PlanLen |-> [id |-> Min(i, NumIds), path |-> Min(i, NumPaths)]]
    /\ kind \in Kinds
    /\ max_workers \in Workers
    /\ files = EmptyFiles
    /\ downloaded = EmptyIndex
    /\ files0 = files
    /\ downloaded0 = downloaded

Init == InitRest /\ (InitFiles \/ InitQuota) /\ InitPersist

\* ---------------------------------------------------------- worker actions
Goto(w, l) == pc' = [pc EXCEPT ![w] = l]

\* an exception leaves the try block of download_or_wait
RaiseAndRetry(w, e) ==
    /\ exc' = [exc EXCEPT ![w] = e]
    /\ raised' = [raised EXCEPT ![cur[w]] = e]
    /\ Goto(w, IF pc[w] = "fetch" /\ fetches[cur[w]] = 0 THEN "fetch" ELSE "finally")
Raise(w, e) ==
    /\ exc' = [exc EXCEPT ![w] = e]
    /\ raised' = [raised EXCEPT ![cur[w]] = e]
    /\ Goto(w, "finally")

NoRaise == UNCHANGED <<exc, raised>>

\* a pool thread takes the next work item and enters download_or_wait;
\* _wait_if_api_usage_limit returns at once when no threshold is configured
TakeItem(w) ==
    /\ w \in Pool
    /\ pc[w] = "idle"
    /\ queue # <<>>
    /\ cur' = [cur EXCEPT ![w] = Head(queue)]
    /\ queue' = Tail(queue)
    /\ started' = started \cup {Head(queue)}
    /\ Goto(w, IF NoThreshold(max_api_usage_percent) THEN "get" ELSE "wait")
    /\ UNCHANGED <<library, listops, validator, persist, config, began, shared, mpc, submitted, run, usage, counter, rec, exc, tmp>>
    /\ UNCHANGED <<waithist, runhist>>
    /\ UNCHANGED <<fetches, log, logged, mutated, dest_existed, rec_at_start, raised>>

\* one usage read of _wait_if_api_usage_limit followed by the while test:
\* over the limit the notice is printed and the sleep loop is entered,
\* otherwise the wait returns; if the read raises, so does the wait
ReadUsage(w, refresh) ==
    \E o \in GetApiUsage(api_usage, refresh) :
        IF ~o.ok
        THEN /\ Raise(w, "fail")
             /\ api_usage' = o.cache
             /\ UNCHANGED <<usage, counter, round_slept>>
        ELSE /\ usage' = [usage EXCEPT ![w] = o.cache]
             /\ NoRaise
             /\ IF OverLimit(o.cache, max_api_usage_percent)
                THEN /\ api_usage' \in PrintDownloadMsg(o.cache)
                     /\ counter' = [counter EXCEPT ![w] = 0]
                     /\ round_slept' = [round_slept EXCEPT ![w] = 0]
                     /\ Goto(w, "for")
                ELSE /\ api_usage' = o.cache
                     /\ Goto(w, "get")
                     /\ UNCHANGED <<counter, round_slept>>

\* _wait_if_api_usage_limit with a threshold: the first usage read
WaitStart(w) ==
    /\ pc[w] = "wait"
    /\ ReadUsage(w, InitialRefresh)
    /\ UNCHANGED <<library, listops, validator, persist, config, began, files, downloaded, stats, stop_event, lock, main>>
    /\ UNCHANGED <<cur, rec, tmp, slept, rounds, cancelled_in_wait, runhist>>
    /\ UNCHANGED <<fetches, started, log, logged, mutated, dest_existed, rec_at_start>>

\* one iteration of the sleep loop: the stop check, then sleep(1)
WaitSleep(w) ==
    /\ pc[w] = "for"
    /\ MoreSleeps(counter[w], wait_sec)
    /\ IF StopRequested(stop_event)
       THEN /\ Raise(w, "stop")
            /\ UNCHANGED <<counter, slept, round_slept>>
       ELSE /\ counter' = [counter EXCEPT ![w] = @ + 1]
            /\ slept' = [slept EXCEPT ![w] = Min(@ + 1, MaxRounds * MaxWaitSec)]
            /\ round_slept' = [round_slept EXCEPT ![w] = Min(@ + 1, MaxWaitSec + 1)]
            /\ NoRaise
            /\ UNCHANGED pc
    /\ UNCHANGED <<library, listops, validator, persist, config, began, shared, main, cur, usage, rec, tmp, rounds, cancelled_in_wait, runhist>>
    /\ UNCHANGED <<fetches, started, log, logged, mutated, dest_existed, rec_at_start>>

\* the sleep loop is exhausted: the refreshing usage read
WaitRefresh(w) ==
    /\ pc[w] = "for"
    /\ ~MoreSleeps(counter[w], wait_sec)
    /\ rounds' = [rounds EXCEPT ![w] = Min(@ + 1, MaxRounds)]
    /\ ReadUsage(w, LoopRefresh)
    /\ UNCHANGED <<library, listops, validator, persist, config, began, files, downloaded, stats, stop_event, lock, main>>
    /\ UNCHANGED <<cur, rec, tmp, slept, cancelled_in_wait, runhist>>
    /\ UNCHANGED <<fetches, started, log, logged, mutated, dest_existed, rec_at_start>>

\* download_from_sf: dispatch on the kind; for a version the index lookup
\* that opens _download_content_version_from_sf
Get(w) ==
    /\ pc[w] = "get"
    /\ dest_existed' = [dest_existed EXCEPT ![cur[w]] = Exists(files, Item(w).path)]
    /\ rec_at_start' = [rec_at_start EXCEPT ![cur[w]] = downloaded[Item(w).id]]
    /\ IF kind = "version"
       THEN /\ rec' = [rec EXCEPT ![w] = IndexGet(downloaded, Item(w).id)]
            /\ Goto(w, "exists")
       ELSE /\ Goto(w, "fetch")
            /\ UNCHANGED rec
    /\ usage' = [usage EXCEPT ![w] = NoUsage]
    /\ counter' = [counter EXCEPT ![w] = 0]
    /\ slept' = [slept EXCEPT ![w] = 0]
    /\ round_slept' = [round_slept EXCEPT ![w] = 0]
    /\ rounds' = [rounds EXCEPT ![w] = 0]
    /\ cancelled_in_wait' = [cancelled_in_wait EXCEPT ![w] = FALSE]
    /\ UNCHANGED <<library, listops, validator, persist, config, began, shared, main, cur, exc, tmp>>
    /\ UNCHANGED <<runhist, fetches, started, log, logged, mutated, raised>>

\* _download_content_version_from_sf: the existence tests and the two
\* local outcomes (record the existing file, copy the recorded file)
ExistsCheck(w) ==
    /\ pc[w] = "exists"
    /\ dest_existed' = [dest_existed EXCEPT ![cur[w]] = Exists(files, Item(w).path)]
    /\ IF Exists(files, Item(w).path)
       THEN /\ IF rec[w] = None
               THEN /\ downloaded' = IndexAdd(downloaded, Item(w).id, Item(w).path)
                    /\ mutated' = mutated \cup {cur[w]}
               ELSE UNCHANGED <<downloaded, mutated>>
            /\ Goto(w, "finally")
            /\ UNCHANGED files
       ELSE IF rec[w] # None /\ Exists(files, rec[w])
       THEN /\ IF rec[w] # Item(w).path
               THEN /\ files' = [files EXCEPT ![Item(w).path] = files[rec[w]]]
                    /\ mutated' = mutated \cup {cur[w]}
               ELSE UNCHANGED <<files, mutated>>
            /\ Goto(w, "finally")
            /\ UNCHANGED downloaded
       ELSE /\ Goto(w, "fetch")
            /\ UNCHANGED <<files, downloaded, mutated>>
    /\ UNCHANGED <<library, listops, validator, persist, config, began, api_usage, stats, stop_event, lock, main>>
    /\ UNCHANGED <<cur, usage, counter, rec, exc, tmp>>
    /\ UNCHANGED <<waithist, runhist, fetches, started, log, logged, rec_at_start, raised>>

\* the remote call download_content_version / download_attachment; when it
\* returns, os.makedirs and open(download_path, "wb") leave an empty file
Fetch(w) ==
    /\ pc[w] = "fetch"
    /\ fetches' = [fetches EXCEPT ![cur[w]] = @ + 1]
    /\ \/ /\ files' = [files EXCEPT ![Item(w).path] = [id |-> Item(w).id, full |-> FALSE]]
          /\ mutated' = mutated \cup {cur[w]}
          /\ Goto(w, "write")
          /\ NoRaise
       \/ /\ Raise(w, "fail")
          /\ UNCHANGED <<files, mutated>>
    /\ UNCHANGED <<library, listops, validator, persist, config, began, downloaded, api_usage, stats, stop_event, lock, main>>
    /\ UNCHANGED <<cur, usage, counter, rec, tmp>>
    /\ UNCHANGED <<waithist, runhist, started, log, logged, dest_existed, rec_at_start>>

\* the chunked write of the response: completes, or the stream raises
Write(w) ==
    /\ pc[w] = "write"
    /\ \/ /\ files' = [files EXCEPT ![Item(w).path] = [id |-> Item(w).id, full |-> TRUE]]
          /\ Goto(w, "add")
          /\ NoRaise
       \/ /\ Raise(w, "fail")
          /\ UNCHANGED files
    /\ UNCHANGED <<library, listops, validator, persist, config, began, downloaded, api_usage, stats, stop_event, lock, main>>
    /\ UNCHANGED <<cur, usage, counter, rec, tmp>>
    /\ UNCHANGED <<waithist, runhist>>
    /\ UNCHANGED <<fetches, started, log, logged, mutated, dest_existed, rec_at_start>>

\* downloaded_list.add of the freshly fetched object
Add(w) ==
    /\ pc[w] = "add"
    /\ downloaded' = IndexAdd(downloaded, Item(w).id, Item(w).path)
    /\ mutated' = mutated \cup {cur[w]}
    /\ Goto(w, "finally")
    /\ UNCHANGED <<library, listops, validator, persist, config, began, files, api_usage, stats, stop_event, lock, main>>
    /\ UNCHANGED <<cur, usage, counter, rec, exc, tmp>>
    /\ UNCHANGED <<waithist, runhist, fetches, started, log, logged, dest_existed, rec_at_start, raised>>

\* finally: with self._lock, and the read half of add_processed
Acquire(w) ==
    /\ pc[w] = "finally"
    /\ LockFree(lock)
    /\ lock' = w
    /\ tmp' = [tmp EXCEPT ![w] = stats]
    /\ Goto(w, "locked")
    /\ UNCHANGED <<library, listops, validator, persist, config, began, files, downloaded, api_usage, stats, stop_event, main>>
    /\ UNCHANGED <<cur, usage, counter, rec, exc>>
    /\ UNCHANGED <<waithist, itemhist, runhist>>

\* finally: the write half of add_processed, the progress line, the
\* release of the lock; the work item is done and the thread is idle again
Bookkeep(w) ==
    /\ pc[w] = "locked"
    /\ stats' = AddProcessed(tmp[w], ContentSize(Item(w).id), ErrorFlag(exc[w]))
    /\ api_usage' \in PrintDownloadMsg(api_usage)
    /\ lock' = 0
    /\ log' = [log EXCEPT ![cur[w]] =
                  [error |-> ErrorFlag(exc[w]), msg |-> Message(exc[w]),
                   size |-> ContentSize(Item(w).id)]]
    /\ logged' = logged \cup {cur[w]}
    /\ Goto(w, "idle")
    /\ cur' = [cur EXCEPT ![w] = 0]
    /\ usage' = [usage EXCEPT ![w] = NoUsage]
    /\ counter' = [counter EXCEPT ![w] = 0]
    /\ rec' = [rec EXCEPT ![w] = None]
    /\ exc' = [exc EXCEPT ![w] = "none"]
    /\ tmp' = [tmp EXCEPT ![w] = NoStats]
    /\ slept' = [slept EXCEPT ![w] = 0]
    /\ round_slept' = [round_slept EXCEPT ![w] = 0]
    /\ rounds' = [rounds EXCEPT ![w] = 0]
    /\ cancelled_in_wait' = [cancelled_in_wait EXCEPT ![w] = FALSE]
    /\ UNCHANGED <<library, listops, validator, persist, config, began, files, downloaded, stop_event, main, runhist>>
    /\ UNCHANGED <<fetches, started, mutated, dest_existed, rec_at_start, raised>>

\* ------------------------------------------------- the thread of download()
\* the pool has no queued work item and no thread is running one
PoolQuietAlways == TRUE
PoolQuiet == queue = <<>> /\ \A w \in Pool : pc[w] = "idle"

\* executor.submit of the next plan entry
Submit ==
    /\ mpc = "submit"
    /\ submitted < Len(plan)
    /\ queue' = Append(queue, submitted + 1)
    /\ submitted' = submitted + 1
    /\ UNCHANGED <<library, listops, validator, persist, config, began, shared, mpc, run, locals, waithist, itemhist, runhist>>

\* the for loop is exhausted: the with block exits normally, and
\* ThreadPoolExecutor.__exit__ calls shutdown(wait=True)
EndWith ==
    /\ mpc = "submit"
    /\ submitted = Len(plan)
    /\ mpc' = "join"
    /\ UNCHANGED <<library, listops, validator, persist, config, began, shared, submitted, queue, run, locals, waithist, itemhist, runhist>>

\* shutdown(wait=True) has joined every thread: download() returns the stats
JoinReturn ==
    /\ mpc = "join"
    /\ PoolQuiet
    /\ mpc' = "returned"
    /\ UNCHANGED <<library, listops, validator, persist, config, began, shared, submitted, queue, run, locals, waithist, itemhist, runhist>>

\* KeyboardInterrupt in the calling thread.  Inside the with body it first
\* runs __exit__, that is shutdown(wait=True), with the exception pending;
\* inside the join of __exit__ it goes straight to the except clause.
Interrupt ==
    /\ ~interrupted
    /\ mpc \in {"submit", "join"}
    /\ interrupted' = TRUE
    /\ started_at_int' = started
    /\ mpc' = IF mpc = "submit" THEN "exit_join" ELSE "except"
    /\ UNCHANGED <<library, listops, validator, persist, config, began, shared, submitted, queue, run, locals, waithist, itemhist>>
    /\ UNCHANGED <<prev_downloaded, prev_errors>>

\* __exit__ with the interrupt pending: shutdown(wait=True) returns once
\* every queued work item has run, then the except clause is entered
ExitJoin ==
    /\ mpc = "exit_join"
    /\ PoolQuiet
    /\ mpc' = "except"
    /\ UNCHANGED <<library, listops, validator, persist, config, began, shared, submitted, queue, run, locals, waithist, itemhist, runhist>>

\* except KeyboardInterrupt: self._stop_event.set()
SetStop ==
    /\ mpc = "except"
    /\ stop_event' = TRUE
    /\ cancelled_in_wait' = [w \in Workers |-> pc[w] = "for"]
    /\ mpc' = "cancel"
    /\ UNCHANGED <<library, listops, validator, persist, config, began, files, downloaded, api_usage, stats, lock>>
    /\ UNCHANGED <<submitted, queue, run, locals, slept, round_slept, rounds, itemhist, runhist>>

\* executor.shutdown(wait=True, cancel_futures=True): the queue is drained
CancelFutures ==
    /\ mpc = "cancel"
    /\ queue' = <<>>
    /\ mpc' = "join2"
    /\ UNCHANGED <<library, listops, validator, persist, config, began, shared, submitted, run, locals, waithist, itemhist, runhist>>

\* the threads are joined and the interrupt is re-raised to the caller
Reraise ==
    /\ mpc = "join2"
    /\ PoolQuiet
    /\ mpc' = "raised"
    /\ UNCHANGED <<library, listops, validator, persist, config, began, shared, submitted, queue, run, locals, waithist, itemhist, runhist>>

\* download() is called again with the same plan, directory and index, on
\* a fresh Downloader (Salesforce.download_files builds one per call)
NextRun ==
    /\ mpc = "returned"
    /\ run < MaxRuns
    /\ run' = run + 1
    /\ stats' = Initialize(Len(plan))
    /\ stop_event' = FALSE
    /\ mpc' = "submit"
    /\ submitted' = 0
    /\ prev_downloaded' = downloaded
    /\ prev_errors' = stats.errors
    /\ fetches' = [i \in 1..PlanLen |-> 0]
    /\ started' = {}
    /\ log' = [i \in 1..PlanLen |-> NoLog]
    /\ logged' = {}
    /\ mutated' = {}
    /\ dest_existed' = [i \in 1..PlanLen |-> FALSE]
    /\ rec_at_start' = [i \in 1..PlanLen |-> None]
    /\ raised' = [i \in 1..PlanLen |-> "none"]
    /\ files0' = files
    /\ downloaded0' = downloaded
    /\ UNCHANGED <<library, listops, validator, persist, config, files, downloaded, api_usage, lock, queue, locals, waithist>>
    /\ UNCHANGED <<started_at_int, interrupted>>

\* ------------------------------------------------------- validator workers
VGoto(w, l) == vpc' = [vpc EXCEPT ![w] = l]
VItem(w) == plan[vcur[w]]

\* a pool thread takes the next work item and enters validate_object, which
\* dispatches on the kind to _validate_version or _validate_attachment
VTakeItem(w) ==
    /\ w \in Pool
    /\ vpc[w] = "idle"
    /\ vqueue # <<>>
    /\ vcur' = [vcur EXCEPT ![w] = Head(vqueue)]
    /\ vqueue' = Tail(vqueue)
    /\ vstarted' = vstarted \cup {Head(vqueue)}
    /\ valid' = [valid EXCEPT ![w] = TRUE]
    /\ VGoto(w, "exists")
    /\ UNCHANGED <<library, listops, inputs, downloader, persist, vshared, vmpc, vsubmitted, vrun>>
    /\ UNCHANGED <<cached, computed, vtmp, validated0, hashed, verdict, vlogged, vraised>>
    /\ UNCHANGED <<prev_fresh, prev_verdict, vrunhist>>

\* the first two branches: the file is missing, or the Validated Index has
\* a record for the path, whose value is compared with the server's
VExists(w) ==
    /\ vpc[w] = "exists"
    /\ LET r == ValidatedGet(validated, VItem(w).path) IN
        IF ~Exists(files, VItem(w).path)
        THEN /\ valid' = [valid EXCEPT ![w] = FALSE]
             /\ VGoto(w, "finally")
             /\ UNCHANGED cached
        ELSE IF r # NoRec
        THEN /\ cached' = [cached EXCEPT ![w] = r]
             /\ valid' = [valid EXCEPT ![w] =
                              ServerValue(kind, VItem(w).id) = CachedValue(kind, r)]
             /\ VGoto(w, "finally")
        ELSE /\ VGoto(w, "hash")
             /\ UNCHANGED <<valid, cached>>
    /\ UNCHANGED <<library, listops, inputs, downloader, persist, vshared, vmain, vcur, computed, vtmp>>
    /\ UNCHANGED <<vitemhist, vrunhist>>

\* the last branch: the value is computed from the file and compared with
\* the server's; reading the file can raise, which the except clause turns
\* into an invalid verdict
VHash(w) ==
    /\ vpc[w] = "hash"
    /\ hashed' = [hashed EXCEPT ![vcur[w]] = 1]
    /\ \/ /\ computed' = [computed EXCEPT ![w] = ComputeValue(kind, files[VItem(w).path])]
          /\ valid' = [valid EXCEPT ![w] =
                           ServerValue(kind, VItem(w).id) = computed'[w]]
          /\ VGoto(w, "add")
          /\ UNCHANGED vraised
       \/ /\ vraised' = vraised \cup {vcur[w]}
          /\ valid' = [valid EXCEPT ![w] = FALSE]
          /\ VGoto(w, "finally")
          /\ UNCHANGED computed
    /\ UNCHANGED <<library, listops, inputs, downloader, persist, vshared, vmain, vcur, cached, vtmp>>
    /\ UNCHANGED <<validated0, verdict, vlogged, vstarted, prev_fresh, prev_verdict, vrunhist>>

\* self._validated_list.add(ValidatedFile(...)), matched or not
VAdd(w) ==
    /\ vpc[w] = "add"
    /\ validated' = ValidatedAdd(validated, VItem(w).path,
                                 NewRecord(kind, VItem(w).id, computed[w]))
    /\ VGoto(w, "finally")
    /\ UNCHANGED <<library, listops, inputs, downloader, persist, vstats, vlock, vmain>>
    /\ UNCHANGED <<vcur, valid, cached, computed, vtmp, vitemhist, vrunhist>>

\* finally: with self._lock
VAcquire(w) ==
    /\ vpc[w] = "finally"
    /\ LockFree(vlock)
    /\ vlock' = w
    /\ vtmp' = [vtmp EXCEPT ![w] = vstats]
    /\ VGoto(w, "locked")
    /\ UNCHANGED <<library, listops, inputs, downloader, persist, validated, vstats, vmain>>
    /\ UNCHANGED <<vcur, valid, cached, computed, vitemhist, vrunhist>>

\* add_processed(invalid=not valid), the message, the lock released, and
\* valid returned
VBookkeep(w) ==
    /\ vpc[w] = "locked"
    /\ vstats' = VAddProcessed(vtmp[w], ~valid[w])
    /\ vlock' = 0
    /\ verdict' = [verdict EXCEPT ![vcur[w]] = IF valid[w] THEN "valid" ELSE "invalid"]
    /\ vlogged' = vlogged \cup {vcur[w]}
    /\ vcur' = [vcur EXCEPT ![w] = 0]
    /\ valid' = [valid EXCEPT ![w] = TRUE]
    /\ cached' = [cached EXCEPT ![w] = NoRec]
    /\ computed' = [computed EXCEPT ![w] = None]
    /\ vtmp' = [vtmp EXCEPT ![w] = NoVStats]
    /\ VGoto(w, "idle")
    /\ UNCHANGED <<library, listops, inputs, downloader, persist, validated, vmain>>
    /\ UNCHANGED <<validated0, hashed, vstarted, vraised, prev_fresh, prev_verdict, vrunhist>>

\* ------------------------------------------------- the thread of validate()
VPoolQuietAlways == TRUE
VPoolQuiet == vqueue = <<>> /\ \A w \in Pool : vpc[w] = "idle"

\* executor.submit of the next plan entry
VSubmit ==
    /\ vmpc = "submit"
    /\ vsubmitted < Len(plan)
    /\ vqueue' = Append(vqueue, vsubmitted + 1)
    /\ vsubmitted' = vsubmitted + 1
    /\ UNCHANGED <<library, listops, inputs, downloader, persist, vshared, vmpc, vrun, vlocals, vitemhist, vrunhist>>

\* the with block exits normally: __exit__ calls shutdown(wait=True)
VEndWith ==
    /\ vmpc = "submit"
    /\ vsubmitted = Len(plan)
    /\ vmpc' = "join"
    /\ UNCHANGED <<library, listops, inputs, downloader, persist, vshared, vsubmitted, vqueue, vrun>>
    /\ UNCHANGED <<vlocals, vitemhist, vrunhist>>

\* every thread is joined: validate() returns the stats
VJoinReturn ==
    /\ vmpc = "join"
    /\ VPoolQuiet
    /\ vmpc' = "returned"
    /\ UNCHANGED <<library, listops, inputs, downloader, persist, vshared, vsubmitted, vqueue, vrun>>
    /\ UNCHANGED <<vlocals, vitemhist, vrunhist>>

\* KeyboardInterrupt in the calling thread: inside the with body it first
\* runs __exit__ with the exception pending, inside the join of __exit__ it
\* goes straight to the except clause
VInterrupt ==
    /\ ~vinterrupted
    /\ vmpc \in {"submit", "join"}
    /\ vinterrupted' = TRUE
    /\ vstarted_at_int' = vstarted
    /\ vmpc' = IF vmpc = "submit" THEN "exit_join" ELSE "except"
    /\ UNCHANGED <<library, listops, inputs, downloader, persist, vshared, vsubmitted, vqueue, vrun>>
    /\ UNCHANGED <<vlocals, vitemhist>>

\* __exit__ with the interrupt pending: shutdown(wait=True)
VExitJoin ==
    /\ vmpc = "exit_join"
    /\ VPoolQuiet
    /\ vmpc' = "except"
    /\ UNCHANGED <<library, listops, inputs, downloader, persist, vshared, vsubmitted, vqueue, vrun>>
    /\ UNCHANGED <<vlocals, vitemhist, vrunhist>>

\* except KeyboardInterrupt: executor.shutdown(wait=True, cancel_futures=True)
VCancelFutures ==
    /\ vmpc = "except"
    /\ vqueue' = <<>>
    /\ vmpc' = "join2"
    /\ UNCHANGED <<library, listops, inputs, downloader, persist, vshared, vsubmitted, vrun>>
    /\ UNCHANGED <<vlocals, vitemhist, vrunhist>>

\* the threads are joined and the interrupt is re-raised to the caller
VReraise ==
    /\ vmpc = "join2"
    /\ VPoolQuiet
    /\ vmpc' = "raised"
    /\ UNCHANGED <<library, listops, inputs, downloader, persist, vshared, vsubmitted, vqueue, vrun>>
    /\ UNCHANGED <<vlocals, vitemhist, vrunhist>>

\* ------------------------------------------------- the wrappers of a run
\* Salesforce.download_files: finally downloaded_list.save(), reached when
\* download() has returned or raised
SaveDownloaded ==
    /\ mpc \in {"returned", "raised"}
    /\ saves = 0
    /\ saves' = 1
    /\ downloaded_file' = downloaded
    /\ UNCHANGED <<library, listops, validator, validated_file, config, began, shared, main, locals>>
    /\ UNCHANGED <<waithist, itemhist, runhist>>

\* Salesforce.validate_download: finally validated_list.save(), reached
\* when validate() has returned or raised
SaveValidated ==
    /\ vmpc \in {"returned", "raised"}
    /\ saves = 0
    /\ saves' = 1
    /\ validated_file' = SaveValidatedList(validated)
    /\ UNCHANGED <<library, listops, inputs, downloader, validator, downloaded_file>>

\* validate_download is called again on the same plan and directory, with
\* the Validated Index of the previous call or one loaded from its file
VNextRun ==
    /\ vmpc = "returned"
    /\ saves = 1
    /\ vrun < MaxRuns
    /\ vrun' = vrun + 1
    /\ saves' = 0
    /\ validated' \in {validated, LoadValidatedList(validated_file)}
    /\ validated0' = validated'
    /\ vstats' = VInitialize(Len(plan))
    /\ vmpc' = "submit"
    /\ vsubmitted' = 0
    /\ prev_fresh' = {i \in 1..PlanLen :
                         /\ verdict[i] = "valid"
                         /\ hashed[i] = 1
                         /\ validated0[plan[i].path] = NoRec}
    /\ prev_verdict' = [i \in 1..PlanLen |->
                            IF validated0[plan[i].path] # NoRec THEN "none"
                            ELSE IF i \in vraised THEN "raised"
                            ELSE verdict[i]]
    /\ hashed' = [i \in 1..PlanLen |-> 0]
    /\ verdict' = [i \in 1..PlanLen |-> "none"]
    /\ vlogged' = {}
    /\ vstarted' = {}
    /\ vraised' = {}
    /\ UNCHANGED <<library, listops, inputs, downloader, downloaded_file, validated_file>>
    /\ UNCHANGED <<vlock, vqueue, vlocals, vrunhist>>

\* ------------------------------------------------------------ specification
\* one download() call, which an interrupt may hit at any moment
Next ==
    \/ Submit
    \/ EndWith
    \/ JoinReturn
    \/ Interrupt
    \/ ExitJoin
    \/ SetStop
    \/ CancelFutures
    \/ Reraise
    \/ \E w \in Workers : TakeItem(w)
    \/ \E w \in Workers : WaitStart(w)
    \/ \E w \in Workers : WaitSleep(w)
    \/ \E w \in Workers : WaitRefresh(w)
    \/ \E w \in Workers : Get(w)
    \/ \E w \in Workers : ExistsCheck(w)
    \/ \E w \in Workers : Fetch(w)
    \/ \E w \in Workers : Write(w)
    \/ \E w \in Workers : Add(w)
    \/ \E w \in Workers : Acquire(w)
    \/ \E w \in Workers : Bookkeep(w)

Spec == Init /\ [][Next]_vars

\* one uninterrupted download() call under fair scheduling: the thread of
\* download() and every pool thread keep running while they can take a
\* step (a thread blocked on the lock or on an empty queue takes none), and
\* a refreshing usage read that is made again and again eventually reports
\* a usage below the threshold
WorkerStep(w) ==
    \/ TakeItem(w)
    \/ WaitStart(w)
    \/ WaitSleep(w)
    \/ WaitRefresh(w)
    \/ Get(w)
    \/ ExistsCheck(w)
    \/ Fetch(w)
    \/ Write(w)
    \/ Add(w)
    \/ Acquire(w)
    \/ Bookkeep(w)
MainStep ==
    \/ Submit
    \/ EndWith
    \/ JoinReturn
UsageDrops(w) == WaitRefresh(w) /\ pc'[w] = "get"

\* with or without a threshold, every wait interval, one worker or
\* several, over a plan of distinct objects, an empty directory and an
\* empty index
InitLive ==
    /\ InitRest
    /\ max_api_usage_percent \in ThresholdChoices
    /\ wait_sec \in 0..MaxWaitSec
    /\ plan = [i \in 1..PlanLen |-> [id |-> Min(i, NumIds), path |-> Min(i, NumPaths)]]
    /\ kind \in Kinds
    /\ max_workers \in Workers
    /\ files = EmptyFiles
    /\ downloaded = EmptyIndex
    /\ files0 = files
    /\ downloaded0 = downloaded
    /\ InitPersist

NextLive ==
    \/ MainStep
    \/ \E w \in Workers : WorkerStep(w)

SpecLive ==
    /\ InitLive
    /\ [][NextLive]_vars
    /\ WF_vars(MainStep)
    /\ \A w \in Workers : WF_vars(WorkerStep(w)) /\ SF_vars(UsageDrops(w))

\* one uninterrupted download() call without a usage threshold over plans
\* whose entries may share a destination path: two links of one document
\* whose directory names are equal give two entries with the same version
\* and the same path
SharedPlans ==
    {pl \in [1..PlanLen -> [id : Ids, path : Paths]] :
        /\ pl[1] = [id |-> 1, path |-> 1]
        /\ \A i, j \in 1..PlanLen : pl[i].path = pl[j].path => pl[i].id = pl[j].id}
InitShared ==
    /\ InitRest
    /\ max_api_usage_percent = None
    /\ wait_sec = MaxWaitSec
    /\ plan \in SharedPlans
    /\ kind \in Kinds
    /\ max_workers \in Workers
    /\ files \in InitialFiles(plan)
    /\ downloaded \in InitialIndexes(plan)
    /\ files0 = files
    /\ downloaded0 = downloaded
    /\ InitPersist

NextShared ==
    \/ MainStep
    \/ \E w \in Workers : TakeItem(w)
    \/ \E w \in Workers : Get(w)
    \/ \E w \in Workers : ExistsCheck(w)
    \/ \E w \in Workers : Fetch(w)
    \/ \E w \in Workers : Write(w)
    \/ \E w \in Workers : Add(w)
    \/ \E w \in Workers : Acquire(w)
    \/ \E w \in Workers : Bookkeep(w)

SpecShared == InitShared /\ [][NextShared]_vars

\* uninterrupted download() calls repeated on the same plan, directory and
\* index, without a usage threshold
InitResume == InitRest /\ InitFiles /\ InitPersist

NextResume ==
    \/ Submit
    \/ EndWith
    \/ JoinReturn
    \/ NextRun
    \/ \E w \in Workers : TakeItem(w)
    \/ \E w \in Workers : Get(w)
    \/ \E w \in Workers : ExistsCheck(w)
    \/ \E w \in Workers : Fetch(w)
    \/ \E w \in Workers : Write(w)
    \/ \E w \in Workers : Add(w)
    \/ \E w \in Workers : Acquire(w)
    \/ \E w \in Workers : Bookkeep(w)

SpecResume == InitResume /\ [][NextResume]_vars

\* uninterrupted validate_download calls repeated over every plan,
\* directory and Validated Index
InitValidate ==
    /\ InitLocals
    /\ mpc = "off"
    /\ max_api_usage_percent = None
    /\ wait_sec = MaxWaitSec
    /\ plan \in Plans
    /\ kind \in Kinds
    /\ max_workers \in Workers
    /\ files \in ValidatedFiles(plan)
    /\ downloaded = EmptyIndex
    /\ files0 = files
    /\ downloaded0 = downloaded
    /\ InitVLocals
    /\ vmpc = "submit"
    /\ validated \in InitialValidated(plan, kind)
    /\ validated0 = validated
    /\ InitPersist
    /\ ListOff
    /\ InitLibrary

NextValidate ==
    \/ VSubmit
    \/ VEndWith
    \/ VJoinReturn
    \/ SaveValidated
    \/ VNextRun
    \/ \E w \in Workers : VTakeItem(w)
    \/ \E w \in Workers : VExists(w)
    \/ \E w \in Workers : VHash(w)
    \/ \E w \in Workers : VAdd(w)
    \/ \E w \in Workers : VAcquire(w)
    \/ \E w \in Workers : VBookkeep(w)

SpecValidate == InitValidate /\ [][NextValidate]_vars

\* one run of either wrapper, which an interrupt may hit at any moment and
\* which ends with the wrapper's save(): download_files with a usage
\* threshold and a wait interval of one second, or validate_download
\* starting from an empty Validated Index
InitRuns ==
    \/ InitRest /\ InitQuota /\ wait_sec = 1 /\ InitPersist
    \/ InitValidate /\ validated = EmptyValidated

NextRuns ==
    \/ Next
    \/ SaveDownloaded
    \/ VSubmit
    \/ VEndWith
    \/ VJoinReturn
    \/ VInterrupt
    \/ VExitJoin
    \/ VCancelFutures
    \/ VReraise
    \/ SaveValidated
    \/ \E w \in Workers : VTakeItem(w)
    \/ \E w \in Workers : VExists(w)
    \/ \E w \in Workers : VHash(w)
    \/ \E w \in Workers : VAdd(w)
    \/ \E w \in Workers : VAcquire(w)
    \/ \E w \in Workers : VBookkeep(w)

SpecRuns == InitRuns /\ [][NextRuns]_vars

\* ------------------------------------------- operations of a DownloadedList
\* the path of the last row of the text that carries the id, if any
LastRow(rows, id, dflt) ==
    LET ks == {k \in 2..Len(rows) : Len(rows[k]) >= 2 /\ rows[k][1] = id}
    IN  IF ks = {} THEN dflt
        ELSE rows[CHOOSE k \in ks : \A j \in ks : j <= k][2]

\* DownloadedList.add(DownloadedSalesforceObject(id, path))
ListAdd ==
    /\ lpc = "idle"
    /\ ops < MaxOps
    /\ \E id \in IdStrings, p \in PathStrings :
          /\ data' = DictSet(data, id, p)
          /\ last' = [last EXCEPT ![id] = p]
          /\ replaced' = (replaced \/ (last[id] # NoPath /\ last[id] # p))
    /\ ops' = ops + 1
    /\ fresh' = NoFresh
    /\ UNCHANGED <<file_text, lpc, written, saved_data>>
    /\ UNCHANGED <<config, began, shared, main, locals, waithist, itemhist, runhist, validator, persist, library>>

\* DownloadedList.load_data_from_file on the index in use: every row of
\* the file is added to it
ListLoad ==
    /\ lpc = "idle"
    /\ ops < MaxOps
    /\ LET r == LoadDataFromFile(data, file_text) IN
          /\ r.ok
          /\ data' = r.data
          /\ last' = [i \in IdStrings |-> LastRow(ReadCsv(file_text).rows, i, last[i])]
    /\ ops' = ops + 1
    /\ fresh' = NoFresh
    /\ UNCHANGED <<file_text, lpc, written, saved_data, replaced>>
    /\ UNCHANGED <<config, began, shared, main, locals, waithist, itemhist, runhist, validator, persist, library>>

\* DownloadedList.save: open(self._path, "w") truncates the file
ListSaveOpen ==
    /\ lpc = "idle"
    /\ file_text' = <<>>
    /\ written' = 0
    /\ lpc' = "saving"
    /\ fresh' = NoFresh
    /\ UNCHANGED <<data, last, saved_data, replaced, ops>>
    /\ UNCHANGED <<config, began, shared, main, locals, waithist, itemhist, runhist, validator, persist, library>>

\* the next line reaches the file: the header, then one row per record
ListSaveWrite ==
    /\ lpc = "saving"
    /\ written <= Len(data)
    /\ file_text' = file_text \o
                       (IF written = 0 THEN HeaderRow
                        ELSE WriteRow(data[written].id, data[written].path))
    /\ written' = written + 1
    /\ UNCHANGED <<data, lpc, fresh, last, saved_data, replaced, ops>>
    /\ UNCHANGED <<config, began, shared, main, locals, waithist, itemhist, runhist, validator, persist, library>>

\* the with block of save() is left: the file is closed
ListSaveClose ==
    /\ lpc = "saving"
    /\ written = Len(data) + 1
    /\ lpc' = "idle"
    /\ saved_data' = data
    /\ UNCHANGED <<data, file_text, written, fresh, last, replaced, ops>>
    /\ UNCHANGED <<config, began, shared, main, locals, waithist, itemhist, runhist, validator, persist, library>>

\* the process dies during save(): the file stays as it is
ListCrash ==
    /\ lpc = "saving"
    /\ lpc' = "crashed"
    /\ UNCHANGED <<data, file_text, written, fresh, last, saved_data, replaced, ops>>
    /\ UNCHANGED <<config, began, shared, main, locals, waithist, itemhist, runhist, validator, persist, library>>

\* load_data_from_file of the file as it stands into a fresh DownloadedList
ListLoadFresh ==
    /\ lpc \in {"idle", "crashed"}
    /\ ~fresh.done
    /\ LET r == LoadDataFromFile(<<>>, file_text)
       IN  fresh' = [done |-> TRUE, ok |-> r.ok, data |-> r.data]
    /\ UNCHANGED <<data, file_text, lpc, written, last, saved_data, replaced, ops>>
    /\ UNCHANGED <<config, began, shared, main, locals, waithist, itemhist, runhist, validator, persist, library>>

\* a DownloadedList on its own: adds, loads and saves in any order
InitIndex ==
    /\ InitLocals
    /\ mpc = "off"
    /\ max_api_usage_percent = None
    /\ wait_sec = MaxWaitSec
    /\ plan = [i \in 1..PlanLen |-> [id |-> Min(i, NumIds), path |-> Min(i, NumPaths)]]
    /\ kind = "version"
    /\ max_workers = 1
    /\ files = EmptyFiles
    /\ downloaded = EmptyIndex
    /\ files0 = files
    /\ downloaded0 = downloaded
    /\ ValidatorOff
    /\ InitPersist
    /\ InitList
    /\ lpc = "idle"
    /\ InitLibrary

NextIndex ==
    \/ ListAdd
    \/ ListLoad
    \/ ListSaveOpen
    \/ ListSaveWrite
    \/ ListSaveClose
    \/ ListCrash
    \/ ListLoadFresh

SpecIndex == InitIndex /\ [][NextIndex]_vars

\* -------------------------------------------- operations of a ValidatedList
\* no program variable but those of the list changes
ProgramUnchanged ==
    UNCHANGED <<config, began, shared, main, locals, waithist, itemhist, runhist,
                validator, persist, listops>>

\* ValidatedList.add(ValidatedFile(path, checksum, content_size)): the
\* constructor raises for a record with neither value and nothing is added
VListAdd ==
    /\ vl_ops < MaxOps
    /\ \E p \in PathStrings, c \in ChecksumStrings \cup {NoChecksum},
          n \in SizeValues \cup {None} :
          IF ValidatedFileAccepted(c, n)
          THEN /\ vl_data' = ListAddFile(vl_data, [path |-> p, checksum |-> c, content_size |-> n])
               /\ UNCHANGED vl_rejected
          ELSE /\ vl_rejected' = TRUE
               /\ UNCHANGED vl_data
    /\ vl_ops' = vl_ops + 1
    /\ vl_fresh' = NoFresh
    /\ UNCHANGED <<vl_file, vl_saved>>
    /\ UNCHANGED <<statops, planops, clientops>>
    /\ ProgramUnchanged

\* ValidatedList.save: the file is rewritten from the index
VListSave ==
    /\ vl_ops < MaxOps
    /\ vl_file' = ValidatedCsvText(vl_data)
    /\ vl_saved' = vl_data
    /\ vl_ops' = vl_ops + 1
    /\ vl_fresh' = NoFresh
    /\ UNCHANGED <<vl_data, vl_rejected>>
    /\ UNCHANGED <<statops, planops, clientops>>
    /\ ProgramUnchanged

\* load_data_from_file of the file as it stands into a fresh ValidatedList
VListLoadFresh ==
    /\ ~vl_fresh.done
    /\ LET r == LoadValidatedFile(<<>>, vl_file)
       IN  vl_fresh' = [done |-> TRUE, ok |-> r.ok, data |-> r.data]
    /\ UNCHANGED <<vl_data, vl_file, vl_saved, vl_rejected, vl_ops>>
    /\ UNCHANGED <<statops, planops, clientops>>
    /\ ProgramUnchanged

\* the classes on their own: no download() or validate() call is in
\* progress and the objects are as their constructors leave them
InitObjects ==
    /\ InitLocals
    /\ mpc = "off"
    /\ max_api_usage_percent = None
    /\ wait_sec = MaxWaitSec
    /\ plan = [i \in 1..PlanLen |-> [id |-> Min(i, NumIds), path |-> Min(i, NumPaths)]]
    /\ kind = "version"
    /\ max_workers = 1
    /\ files = EmptyFiles
    /\ downloaded = EmptyIndex
    /\ files0 = files
    /\ downloaded0 = downloaded
    /\ ValidatorOff
    /\ InitPersist
    /\ ListOff
    /\ InitLibrary

\* a ValidatedList on its own: adds, saves and loads in any order
NextVIndex ==
    \/ VListAdd
    \/ VListSave
    \/ VListLoadFresh

SpecVIndex == InitObjects /\ [][NextVIndex]_vars

\* ------------------------------------ operations of the two stats classes
\* what the state observes of a stats operation: its name, class, target
\* and argument, and the objects as they were before it
StatOp(op, cls, obj, other) ==
    [op |-> op, cls |-> cls, obj |-> obj, other |-> other, st |-> st, vst |-> vst]

\* DownloadStats.initialize(total), total the length of a plan
DStatsInitialize ==
    /\ st_ops < MaxOps
    /\ \E o \in StatObjs, total \in 0..PlanLen :
          /\ st' = [st EXCEPT ![o] = Initialize(total)]
          /\ st_last' = StatOp("initialize", "download", o, o)
    /\ st_ops' = st_ops + 1
    /\ UNCHANGED <<vst, vlist, planops, clientops>>
    /\ ProgramUnchanged

\* DownloadStats.add_processed(size, error), size the size of an object
DStatsAddProcessed ==
    /\ st_ops < MaxOps
    /\ \E o \in StatObjs, size \in SizeValues, error \in BOOLEAN :
          /\ st' = [st EXCEPT ![o] = AddProcessed(st[o], size, error)]
          /\ st_last' = StatOp("add_processed", "download", o, o)
    /\ st_ops' = st_ops + 1
    /\ UNCHANGED <<vst, vlist, planops, clientops>>
    /\ ProgramUnchanged

\* DownloadStats.combine(other): other may be the object itself
DStatsCombine ==
    /\ st_ops < MaxOps
    /\ \E o \in StatObjs, other \in StatObjs :
          /\ st' = [st EXCEPT ![o] = Combine(st[o], st[other])]
          /\ st_last' = StatOp("combine", "download", o, other)
    /\ st_ops' = st_ops + 1
    /\ UNCHANGED <<vst, vlist, planops, clientops>>
    /\ ProgramUnchanged

\* ValidationStats.initialize(total)
VStatsInitialize ==
    /\ st_ops < MaxOps
    /\ \E o \in StatObjs, total \in 0..PlanLen :
          /\ vst' = [vst EXCEPT ![o] = VInitialize(total)]
          /\ st_last' = StatOp("initialize", "validation", o, o)
    /\ st_ops' = st_ops + 1
    /\ UNCHANGED <<st, vlist, planops, clientops>>
    /\ ProgramUnchanged

\* ValidationStats.add_processed(invalid)
VStatsAddProcessed ==
    /\ st_ops < MaxOps
    /\ \E o \in StatObjs, invalid \in BOOLEAN :
          /\ vst' = [vst EXCEPT ![o] = VAddProcessed(vst[o], invalid)]
          /\ st_last' = StatOp("add_processed", "validation", o, o)
    /\ st_ops' = st_ops + 1
    /\ UNCHANGED <<st, vlist, planops, clientops>>
    /\ ProgramUnchanged

\* ValidationStats.combine(other)
VStatsCombine ==
    /\ st_ops < MaxOps
    /\ \E o \in StatObjs, other \in StatObjs :
          /\ vst' = [vst EXCEPT ![o] = VCombine(vst[o], vst[other])]
          /\ st_last' = StatOp("combine", "validation", o, other)
    /\ st_ops' = st_ops + 1
    /\ UNCHANGED <<st, vlist, planops, clientops>>
    /\ ProgramUnchanged

\* stats objects on their own: any sequence of the three operations
NextStats ==
    \/ DStatsInitialize
    \/ DStatsAddProcessed
    \/ DStatsCombine
    \/ VStatsInitialize
    \/ VStatsAddProcessed
    \/ VStatsCombine

SpecStats == InitObjects /\ [][NextStats]_vars

\* ------------------------------------- operations of a SalesforceApiClient
\* get_api_usage(refresh) on a client whose snapshot is api_usage: with a
\* round trip the remote reports any snapshot or limits() raises
ClientGetApiUsage ==
    /\ cl_ops < MaxCalls
    /\ \E refresh \in BOOLEAN : \E o \in GetApiUsage(api_usage, refresh) :
          /\ api_usage' = o.cache
          /\ cl_last' = [called |-> TRUE, refresh |-> refresh, before |-> api_usage, ok |-> o.ok,
                         after |-> o.cache, trips |-> o.trips,
                         remote |-> IF o.trips > 0 /\ o.ok THEN o.cache ELSE NoUsage]
    /\ cl_ops' = cl_ops + 1
    /\ UNCHANGED <<vlist, statops, planops>>
    /\ UNCHANGED <<config, began, files, downloaded, stats, stop_event, lock, main, locals,
                   waithist, itemhist, runhist, validator, persist, listops>>

\* the wrapped client's api_usage attribute is set by the client library
\* from the responses of its other requests (a query, a download)
ClientOtherCall ==
    /\ cl_ops < MaxCalls
    /\ api_usage' \in UsageValues
    /\ cl_ops' = cl_ops + 1
    /\ UNCHANGED <<cl_last, vlist, statops, planops>>
    /\ UNCHANGED <<config, began, files, downloaded, stats, stop_event, lock, main, locals,
                   waithist, itemhist, runhist, validator, persist, listops>>

NextClient ==
    \/ ClientGetApiUsage
    \/ ClientOtherCall

SpecClient == InitObjects /\ [][NextClient]_vars

\* ------------------------------------------ operations of a download list
\* the iteration orders a set of version ids can have when the list is
\* generated (no set is iterated when the stored list is returned)
AllOrders ==
    {o \in [1..Cardinality(VersionObjects) -> VersionObjects] :
        \A i, j \in DOMAIN o : i # j => o[i] # o[j]}
Orders ==
    IF NotGenerated(to_download) /\ pl_kind = "version" THEN AllOrders
    ELSE {CHOOSE o \in AllOrders : TRUE}

\* _generate_download_list: the list is generated from the metadata lists
\* if it has not been yet, and the stored list is returned
GenerateDownloadList(ord) ==
    IF NotGenerated(to_download)
    THEN IF pl_kind = "version"
         THEN GenerateVersionList(pl_links, pl_versions, ord, Len(pl_links))
         ELSE GenerateAttachmentList(pl_atts)
    ELSE to_download.list
FirstGeneration(g) ==
    IF pl_first.done THEN pl_first
    ELSE [done |-> TRUE, entries |-> g, links |-> pl_links, versions |-> pl_versions,
          atts |-> pl_atts]

\* DownloadContentVersionList.__init__ / DownloadAttachmentList.__init__
\* over the metadata lists
PlanNew ==
    /\ pl_kind = "none"
    /\ pl_kind' \in Kinds
    /\ to_download' = NoPlan
    /\ UNCHANGED <<pl_links, pl_versions, pl_atts, pl_first, pl_yield, pl_count, pl_changed, pl_ops>>
    /\ UNCHANGED <<vlist, statops, clientops>>
    /\ ProgramUnchanged

\* ContentDocumentLinkList.add_link
PlanAddLink ==
    /\ pl_ops < MaxOps
    /\ pl_kind = "version"
    /\ \E link \in LinkObjects :
          /\ Len(AddLink(pl_links, link)) <= PlanLen
          /\ pl_links' = AddLink(pl_links, link)
    /\ pl_changed' = (pl_changed \/ (to_download.generated /\ pl_links' # pl_links))
    /\ pl_ops' = pl_ops + 1
    /\ UNCHANGED <<pl_kind, pl_versions, pl_atts, to_download, pl_first, pl_yield, pl_count>>
    /\ UNCHANGED <<vlist, statops, clientops>>
    /\ ProgramUnchanged

\* ContentVersionList.add_version
PlanAddVersion ==
    /\ pl_ops < MaxOps
    /\ pl_kind = "version"
    /\ \E v \in VersionObjects \ pl_versions : pl_versions' = pl_versions \cup {v}
    /\ pl_changed' = (pl_changed \/ to_download.generated)
    /\ pl_ops' = pl_ops + 1
    /\ UNCHANGED <<pl_kind, pl_links, pl_atts, to_download, pl_first, pl_yield, pl_count>>
    /\ UNCHANGED <<vlist, statops, clientops>>
    /\ ProgramUnchanged

\* AttachmentList.add_attachment
PlanAddAttachment ==
    /\ pl_ops < MaxOps
    /\ pl_kind = "attachment"
    /\ \E a \in AttachmentObjects :
          /\ Len(AddAttachment(pl_atts, a)) <= PlanLen
          /\ pl_atts' = AddAttachment(pl_atts, a)
    /\ pl_changed' = (pl_changed \/ (to_download.generated /\ pl_atts' # pl_atts))
    /\ pl_ops' = pl_ops + 1
    /\ UNCHANGED <<pl_kind, pl_links, pl_versions, to_download, pl_first, pl_yield, pl_count>>
    /\ UNCHANGED <<vlist, statops, clientops>>
    /\ ProgramUnchanged

\* __iter__: yield from self._generate_download_list()
PlanIter ==
    /\ pl_kind # "none"
    /\ \E ord \in Orders :
          /\ to_download' = [generated |-> TRUE, list |-> GenerateDownloadList(ord)]
          /\ pl_first' = FirstGeneration(to_download'.list)
          /\ pl_yield' = [done |-> TRUE, entries |-> to_download'.list, changed |-> pl_changed]
    /\ UNCHANGED <<pl_kind, pl_links, pl_versions, pl_atts, pl_count, pl_changed, pl_ops>>
    /\ UNCHANGED <<vlist, statops, clientops>>
    /\ ProgramUnchanged

\* __len__: len(self._generate_download_list())
PlanLength ==
    /\ pl_kind # "none"
    /\ \E ord \in Orders :
          /\ to_download' = [generated |-> TRUE, list |-> GenerateDownloadList(ord)]
          /\ pl_first' = FirstGeneration(to_download'.list)
          /\ pl_count' = Len(to_download'.list)
    /\ UNCHANGED <<pl_kind, pl_links, pl_versions, pl_atts, pl_yield, pl_changed, pl_ops>>
    /\ UNCHANGED <<vlist, statops, clientops>>
    /\ ProgramUnchanged

\* a download list over metadata lists that may still change
NextPlan ==
    \/ PlanNew
    \/ PlanAddLink
    \/ PlanAddVersion
    \/ PlanAddAttachment
    \/ PlanIter
    \/ PlanLength

SpecPlan == InitObjects /\ [][NextPlan]_vars

\* ------------------------------------------------------------------ claims
Entries == 1..PlanLen
Failed == {i \in Entries : raised[i] # "none"}
FetchesOf(id) ==
    LET RECURSIVE Sum(_)
        Sum(n) == IF n = 0 THEN 0
                  ELSE Sum(n - 1) + (IF plan[n].id = id THEN fetches[n] ELSE 0)
    IN  Sum(PlanLen)

\* C1 (idempotent resume): once a download() run has returned with no item
\* error, a further run on the same plan, directory and index invokes the
\* remote fetch for no entry and leaves the Downloaded Index as the previous
\* run left it.
C1_IdempotentResume ==
    (run > 1 /\ prev_errors = 0) =>
        /\ \A i \in Entries : fetches[i] = 0
        /\ downloaded = prev_downloaded

\* C2 (dedup by copy): after a complete error-free run that started from an
\* empty directory and an empty index, two plan entries with the same object
\* id and different paths both have their file, complete and with the same
\* content, and the object was fetched at most once.
C2_DedupByCopy ==
    (mpc = "returned" /\ files0 = EmptyFiles /\ downloaded0 = EmptyIndex /\ Failed = {}) =>
        \A i, j \in Entries :
            (plan[i].id = plan[j].id /\ plan[i].path # plan[j].path) =>
                /\ files[plan[i].path].full
                /\ files[plan[j].path] = files[plan[i].path]
                /\ FetchesOf(plan[i].id) <= 1

\* C3 (Case A): an item whose destination already held a file when its
\* download procedure looked never invokes the remote fetch, and it changes
\* the Downloaded Index only if the index had no record for its object.
C3_CaseA ==
    \A i \in started :
        dest_existed[i] =>
            /\ fetches[i] = 0
            /\ (i \in mutated => rec_at_start[i] = None)

\* C4 (per-item isolation): when download() returns, every plan entry has
\* been processed, whatever the other entries did, and every entry whose
\* procedure raised has been counted as an error; download() returns even
\* when every entry failed.
C4_Isolation ==
    mpc = "returned" =>
        \A i \in Entries : i \in logged /\ (raised[i] # "none" => log[i].error)

C4_Witness == mpc = "returned" /\ Failed = Entries /\ stats.errors = PlanLen

\* C5 (stats under concurrency): when download() returns uninterrupted,
\* total and processed equal the number of plan entries and errors equals
\* the number of entries whose procedure raised.
C5_Stats ==
    mpc = "returned" =>
        /\ stats.total = Len(plan)
        /\ stats.processed = Len(plan)
        /\ stats.errors = Cardinality(Failed)

C5_Witness ==
    /\ mpc = "returned"
    /\ max_workers = MaxWorkers
    /\ Cardinality(Failed) = 1
    /\ stats.errors = 1
    /\ stats.processed = PlanLen

\* C6 (quota backpressure): with a threshold configured, a worker is about
\* to begin an item's download procedure only when the usage it last read
\* is strictly below the threshold; as long as the usage it last read is at
\* or above the threshold it stays in the sleep loop.
C6_Backpressure ==
    \A w \in Workers :
        max_api_usage_percent # None =>
            /\ pc[w] = "get" =>
                  usage[w] # NoUsage /\ Percent(usage[w]) < max_api_usage_percent
            /\ pc[w] = "for" =>
                  usage[w] # NoUsage /\ Percent(usage[w]) >= max_api_usage_percent

C6_Witness ==
    \E w \in Workers :
        /\ pc[w] = "get"
        /\ max_api_usage_percent # None
        /\ rounds[w] = 1
        /\ Percent(usage[w]) < max_api_usage_percent

\* C7 (quota wait rounds): the first usage read of a wait is made with
\* refresh=false (with a snapshot cached it returns that snapshot and leaves
\* it alone); every refreshing read comes after exactly wait_sec sleeps
\* since the previous read, so a wait that has made r refreshing reads has
\* slept r * wait_sec times when it returns; the wait goes on exactly
\* while the usage last read is at or above the threshold.
C7_RoundsInv ==
    \A w \in Workers :
        (max_api_usage_percent # None /\ rounds[w] < MaxRounds) =>
            /\ pc[w] = "for" =>
                  /\ round_slept[w] <= wait_sec
                  /\ slept[w] = rounds[w] * wait_sec + round_slept[w]
                  /\ Percent(usage[w]) >= max_api_usage_percent
            /\ pc[w] = "get" =>
                  /\ slept[w] = rounds[w] * wait_sec
                  /\ Percent(usage[w]) < max_api_usage_percent

C7_FirstRead ==
    \A w \in Workers :
        (pc[w] = "wait" /\ pc'[w] # "wait" /\ api_usage # NoUsage) =>
            /\ api_usage' = api_usage
            /\ usage'[w] = api_usage
            /\ rounds'[w] = 0

C7_WaitRounds == [](C7_RoundsInv) /\ [][C7_FirstRead]_vars

C7_Witness ==
    \E w \in Workers :
        /\ pc[w] = "get"
        /\ wait_sec = MaxWaitSec
        /\ rounds[w] = 1
        /\ slept[w] = wait_sec

\* C8 as claimed (cancelled wait): once the stop event has been set while a
\* worker was in the sleep loop of the quota wait, that worker is still
\* waiting or its wait has ended with StopDownloadException (a wait ended
\* by an error of the usage provider aside); it has not returned normally.
C8_CancelledWait ==
    \A w \in Workers :
        (cancelled_in_wait[w] /\ exc[w] # "fail") =>
            pc[w] \in WaitPcs \/ exc[w] = "stop"

\* C8 as amended: the stop event is read by the check that opens each
\* one-second iteration of the sleep loop.  With the event set, a worker
\* that executes such a check raises StopDownloadException there and does
\* not sleep again.  (A wait returns normally after the event was set only
\* if it executes no such check any more: wait_sec = 0, or the usage read
\* that follows reports a percent below the threshold.)
C8_StopCheck ==
    \A w \in Workers :
        (stop_event /\ pc[w] = "for" /\ counter[w] < wait_sec) =>
            \/ pc'[w] = "for" /\ counter'[w] = counter[w] /\ exc'[w] = exc[w]
            \/ pc'[w] = "finally" /\ exc'[w] = "stop"

C8_CancelAtCheck == [][C8_StopCheck]_vars

C8_Witness ==
    \E w \in Workers : cancelled_in_wait[w] /\ pc[w] = "finally" /\ exc[w] = "stop"

\* C9 (cancelled item): an item whose quota wait ended with
\* StopDownloadException has invoked no remote fetch and changed no file and
\* no index record; its bookkeeping records it as an error with the
\* shutdown message, and it is among the processed items when download()
\* re-raises the interrupt.
C9_CancelledItem ==
    \A i \in Entries :
        raised[i] = "stop" =>
            /\ fetches[i] = 0
            /\ i \notin mutated
            /\ i \in logged => log[i].error /\ log[i].msg = MsgShutdown
            /\ mpc = "raised" => i \in logged /\ stats.errors >= 1

C9_Witness ==
    \E i \in Entries : raised[i] = "stop" /\ i \in logged /\ mpc = "raised"

\* C10 (interrupt cancels queued work): after an interrupt, the items whose
\* processing has started are those that had started when it arrived.
C10_InterruptCancelsQueued == interrupted => started \subseteq started_at_int

\* ------------------------------------------------------ validator claims
FileAt(i) == files[plan[i].path]
RecordAt0(i) == validated0[plan[i].path]
RecordAt(i) == validated[plan[i].path]
Invalid == {i \in Entries : verdict[i] = "invalid"}

\* C14 (trust the cache): an item whose file exists and whose path had a
\* record in the Validated Index is valid exactly when the server's value
\* (checksum of a version, size of an attachment) equals the record's; the
\* file is not read and the record is left as it was.
C14_TrustCache ==
    \A i \in vlogged :
        (FileAt(i) # NoFile /\ RecordAt0(i) # NoRec) =>
            /\ verdict[i] = "valid" <=>
                  IF kind = "version"
                  THEN Checksum(plan[i].id) = RecordAt0(i).checksum
                  ELSE ContentSize(plan[i].id) = RecordAt0(i).content_size
            /\ hashed[i] = 0
            /\ RecordAt(i) = RecordAt0(i)

\* a file whose content matches the server's value is reported invalid on
\* the strength of a stale record
C14_Witness ==
    \E i \in vlogged :
        /\ FileAt(i) = [id |-> plan[i].id, full |-> TRUE]
        /\ RecordAt0(i) # NoRec
        /\ verdict[i] = "invalid"
        /\ hashed[i] = 0

\* C15 (cache over two runs): an item that the previous run found valid by
\* computing the value from the file, with no record cached before, is
\* found valid by the next run without the file being read.
C15_SecondRun ==
    \A i \in vlogged :
        (vrun > 1 /\ i \in prev_fresh) => verdict[i] = "valid" /\ hashed[i] = 0

C15_Witness ==
    \E i \in vlogged : vrun = MaxRuns /\ i \in prev_fresh /\ verdict[i] = "valid"

\* C16 (uncached validation): an item whose file exists and whose path had
\* no record has its value computed from the file (unless reading it
\* raised), is valid exactly when that value equals the server's, and
\* leaves in the Validated Index the value computed from the file.
C16_Uncached ==
    \A i \in vlogged :
        (FileAt(i) # NoFile /\ RecordAt0(i) = NoRec /\ i \notin vraised) =>
            /\ hashed[i] = 1
            /\ verdict[i] = "valid" <=>
                  ComputeValue(kind, FileAt(i)) = ServerValue(kind, plan[i].id)
            /\ IF kind = "version"
               THEN RecordAt(i).checksum = CalculateMd5(FileAt(i))
               ELSE RecordAt(i).content_size = CalculateSize(FileAt(i))

\* C17 (missing file): an item whose path holds no file is invalid, the
\* file is not read, the record of its path (cached or absent) is left as
\* it was, and the item is counted as processed and invalid.
C17_MissingFile ==
    /\ \A i \in vlogged :
          FileAt(i) = NoFile =>
              /\ verdict[i] = "invalid"
              /\ hashed[i] = 0
              /\ RecordAt(i) = RecordAt0(i)
    /\ (vmpc = "returned" /\ \E i \in Entries : FileAt(i) = NoFile) =>
          /\ vstats.processed = PlanLen
          /\ vstats.invalid >= Cardinality({i \in Entries : FileAt(i) = NoFile})

C17_Witness ==
    \E i \in vlogged :
        /\ FileAt(i) = NoFile
        /\ RecordAt0(i) # NoRec
        /\ vmpc = "returned"
        /\ vstats.invalid = 1

\* C18 (validation exception): an item whose check raised is invalid and
\* stores no record; when validate() returns every item has been
\* validated, processed counts every item once and invalid counts the
\* invalid verdicts once each.
C18_Exception ==
    /\ \A i \in vlogged \cap vraised :
          verdict[i] = "invalid" /\ RecordAt(i) = RecordAt0(i)
    /\ vmpc = "returned" =>
          /\ vlogged = Entries
          /\ vstats.processed = PlanLen
          /\ vstats.total = PlanLen
          /\ vstats.invalid = Cardinality(Invalid)

C18_Witness ==
    /\ vmpc = "returned"
    /\ max_workers = MaxWorkers
    /\ Cardinality(vraised) = 1
    /\ \E i \in Entries : verdict[i] = "valid" /\ hashed[i] = 1
    /\ vstats.invalid = 1

\* ---------------------------------------------------------- run claims
\* C11 (interrupt propagates): a download() or validate() call hit by a
\* KeyboardInterrupt does not return its stats; when it re-raises the
\* interrupt no worker is running any more and every item that had started
\* has finished its bookkeeping.
C11_InterruptPropagates ==
    /\ interrupted => mpc # "returned"
    /\ mpc = "raised" =>
          /\ interrupted
          /\ \A w \in Workers : pc[w] = "idle"
          /\ started \subseteq logged
    /\ vinterrupted => vmpc # "returned"
    /\ vmpc = "raised" =>
          /\ vinterrupted
          /\ \A w \in Workers : vpc[w] = "idle"
          /\ vstarted \subseteq vlogged

\* the interrupt is re-raised after some items ran and others were cancelled
C11_Witness == mpc = "raised" /\ logged # {} /\ logged # Entries

C13_AtomicSave ==
    lpc # "off" => (file_text = CsvText(saved_data) \/ file_text = CsvText(data))

\* C19 (upsert): the Downloaded Index holds at most one record per object
\* id, and get() of an object, whatever its kind, returns the path of the
\* most recent add for its id (by add() or by a load), or nothing if there
\* was none.
C19_Upsert ==
    /\ \A j, k \in 1..Len(data) : j # k => data[j].id # data[k].id
    /\ \A id \in IdStrings, k \in Kinds :
          DictGet(data, [id |-> id, kind |-> k]) = last[id]

C19_Witness ==
    /\ replaced
    /\ ops = MaxOps
    /\ Len(data) = Cardinality(IdStrings)

\* C20 (round trip): loading the file of a completed save() into a fresh
\* index succeeds and gives as many records as were saved and, for every
\* object id, the saved path.
C20_RoundTrip ==
    (fresh.done /\ lpc = "idle") =>
        /\ fresh.ok
        /\ Len(fresh.data) = Len(saved_data)
        /\ \A id \in IdStrings :
              DictGet(fresh.data, [id |-> id, kind |-> "version"]) =
                  DictGet(saved_data, [id |-> id, kind |-> "version"])

\* C21 (validated index round trip): loading the file of a save() into a
\* fresh Validated Index succeeds and yields, for every path of the saved
\* index, a record equal to the saved one in path, checksum and size.
C21_RoundTrip ==
    (vl_fresh.done /\ vl_file = ValidatedCsvText(vl_saved) /\ vl_saved = vl_data)
        => /\ vl_fresh.ok
           /\ \A k \in 1..Len(vl_saved) :
                 ValidatedFileEq(ListGetFile(vl_fresh.data, vl_saved[k].path), vl_saved[k])

\* C22 (one value per record): every record of the Validated Index has
\* exactly one of checksum and size populated.
C22_ExactlyOne ==
    \A p \in Paths :
        validated[p] # NoRec =>
            ((validated[p].checksum = None) # (validated[p].content_size = None))

\* the object a stats operation was applied to, before and after it
Before(c) == IF c = "download" THEN st_last.st[st_last.obj] ELSE st_last.vst[st_last.obj]
After(c) == IF c = "download" THEN st[st_last.obj] ELSE vst[st_last.obj]
Bad(c, s) == IF c = "download" THEN s.errors ELSE s.invalid
Did(op, c) == st_last.op = op /\ st_last.cls = c

\* C23 (stats invariant): after any sequence of initialize, add_processed
\* and combine every stats object has processed <= total and errors (or
\* invalid) <= processed; add_processed lowers no counter and leaves total
\* at the larger of the old total and the new processed.
C23_StatsInvariant ==
    /\ \A o \in StatObjs :
          /\ st[o].processed <= st[o].total
          /\ st[o].errors <= st[o].processed
          /\ vst[o].processed <= vst[o].total
          /\ vst[o].invalid <= vst[o].processed
    /\ \A c \in {"download", "validation"} :
          Did("add_processed", c) =>
              /\ After(c).processed = Before(c).processed + 1
              /\ Bad(c, After(c)) >= Bad(c, Before(c))
              /\ After(c).total >= Before(c).total
              /\ After(c).total = Max(Before(c).total, After(c).processed)
              /\ (After(c).total > Before(c).total => After(c).processed > Before(c).total)
    /\ Did("add_processed", "download") => After("download").size >= Before("download").size

C23_Witness ==
    /\ Did("add_processed", "download")
    /\ After("download").total > Before("download").total
    /\ Before("download").processed > 0

\* C24 (stats combine): a.combine(b) leaves every counter of a at the sum
\* of the two operands' counters and b as it was, which is also what
\* b.combine(a) would have left in b.
C24_Combine ==
    /\ Did("combine", "download") =>
          LET a == st_last.st[st_last.obj]
              b == st_last.st[st_last.other]
              r == st[st_last.obj]
          IN  /\ r.total = a.total + b.total
              /\ r.processed = a.processed + b.processed
              /\ r.errors = a.errors + b.errors
              /\ r.size = a.size + b.size
              /\ r = Combine(b, a)
              /\ (st_last.other # st_last.obj => st[st_last.other] = b)
              /\ vst = st_last.vst
    /\ Did("combine", "validation") =>
          LET a == st_last.vst[st_last.obj]
              b == st_last.vst[st_last.other]
              r == vst[st_last.obj]
          IN  /\ r.total = a.total + b.total
              /\ r.processed = a.processed + b.processed
              /\ r.invalid = a.invalid + b.invalid
              /\ r = VCombine(b, a)
              /\ (st_last.other # st_last.obj => vst[st_last.other] = b)
              /\ st = st_last.st

C24_Witness ==
    /\ Did("combine", "download")
    /\ st_last.other # st_last.obj
    /\ st_last.st[st_last.other].errors > 0
    /\ st_last.st[st_last.obj].size > 0

\* the sizes of the plan entries whose bookkeeping recorded a success
SucceededBytes ==
    LET RECURSIVE Sum(_)
        Sum(n) == IF n = 0 THEN 0
                  ELSE Sum(n - 1) +
                       (IF n \in logged /\ ~log[n].error THEN ContentSize(plan[n].id) ELSE 0)
    IN  Sum(PlanLen)

\* C25 (byte accounting): when download() returns, the bytes counter is
\* the sum of the sizes of the entries that succeeded; a failed or
\* cancelled entry has added nothing.
C25_Bytes == mpc = "returned" => stats.size = SucceededBytes

\* C26 (plan stability): every iteration of a download list yields the
\* sequence its first generation produced, len() returns the length of
\* that sequence, and the stored list stays that sequence whatever is
\* added to the metadata lists afterwards.
C26_Stable ==
    /\ pl_yield.done => pl_first.done /\ pl_yield.entries = pl_first.entries
    /\ pl_count # None => pl_first.done /\ pl_count = Len(pl_first.entries)
    /\ to_download.generated => pl_first.done /\ to_download.list = pl_first.entries

\* an iteration and a len() after additions that a new generation would
\* have picked up
C26_Witness ==
    /\ pl_kind = "version"
    /\ pl_yield.done
    /\ pl_yield.changed
    /\ pl_count # None
    /\ pl_first.entries # <<>>
    /\ \A ord \in AllOrders :
          Len(GenerateVersionList(pl_links, pl_versions, ord, Len(pl_links)))
              > Len(pl_first.entries)

\* a path without repeated separators, which name the same file
RECURSIVE Norm(_)
Norm(p) ==
    IF Len(p) < 2 THEN p
    ELSE IF p[1] = SEP /\ p[2] = SEP THEN Norm(Tail(p))
    ELSE <<p[1]>> \o Norm(Tail(p))
ClaimedPath(dir, filename) ==
    Norm(DataDir \o <<SEP>> \o FilesDir \o <<SEP>> \o dir \o <<SEP>> \o filename)
ClaimedVersionEntry(link, v) ==
    [obj |-> v.id,
     path |-> ClaimedPath(IF link.download_dir_name = NoDir THEN link.linked_entity_id
                          ELSE link.download_dir_name,
                          VersionFilename(v))]
ClaimedAttachmentEntry(a) ==
    [obj |-> a.id, path |-> ClaimedPath(a.parent_id, AttachmentFilename(a))]
NormEntry(e) == [obj |-> e.obj, path |-> Norm(e.path)]
Held(e) == Cardinality({i \in 1..Len(pl_first.entries) : NormEntry(pl_first.entries[i]) = e})

\* C27 (plan paths): the generated list holds exactly one entry per link
\* and version of the link's document, at dataDir/files/<directory name of
\* the link>/<filename of the version>, or exactly one entry per attachment
\* at dataDir/files/<parent id>/<filename of the attachment>.
C27_PlanPaths ==
    pl_first.done =>
        IF pl_kind = "version"
        THEN LET pairs == {k \in (1..Len(pl_first.links)) \X pl_first.versions :
                              IsVersionOf(k[2], pl_first.links[k[1]])}
             IN  /\ Len(pl_first.entries) = Cardinality(pairs)
                 /\ \A k \in pairs :
                       LET e == ClaimedVersionEntry(pl_first.links[k[1]], k[2])
                       IN  Held(e) =
                               Cardinality({j \in pairs :
                                   ClaimedVersionEntry(pl_first.links[j[1]], j[2]) = e})
        ELSE /\ Len(pl_first.entries) = Len(pl_first.atts)
             /\ \A k \in 1..Len(pl_first.atts) :
                   Held(ClaimedAttachmentEntry(pl_first.atts[k])) = 1

\* a worker is at a read or a change of the Downloaded Index
AtIndex(w) == pc[w] = "add" \/ (kind = "version" /\ pc[w] \in {"get", "exists"})

\* C28 (mutex coverage): a worker at a read or a change of the Downloaded
\* Index or of the stats holds the mutex, and no two workers are at an
\* access of the Downloaded Index at the same time.
C28_MutexCoverage ==
    /\ \A w \in Workers : (AtIndex(w) \/ pc[w] = "locked") => lock = w
    /\ \A w1, w2 \in Workers : (w1 # w2 /\ AtIndex(w1)) => ~AtIndex(w2)

\* C29 (no I/O under the mutex): a step of the worker that holds the mutex
\* makes no remote call (no fetch, no usage round trip) and touches no file.
C29_NoIoUnderLock ==
    [][\A w \in Workers :
          (lock = w /\ pc'[w] # pc[w]) =>
              /\ ~CallsLimits(api_usage, FALSE)
              /\ fetches' = fetches
              /\ files' = files]_vars

\* C30 (no retries): in one download() run the remote fetch is made at most
\* once for each plan entry.
C30_NoRetries == \A i \in Entries : fetches[i] <= 1

C30_Witness ==
    /\ mpc = "returned"
    /\ \E i, j \in Entries :
          /\ fetches[i] = 1 /\ raised[i] = "fail" /\ files[plan[i].path] = NoFile
          /\ fetches[j] = 1 /\ raised[j] = "none"

\* C31 (usage snapshot): a get_api_usage(refresh=False) call on a client
\* with a snapshot makes no round trip and returns that snapshot; with no
\* snapshot it makes exactly one round trip; a get_api_usage(refresh=True)
\* call always makes one round trip and returns what the remote reported.
C31_UsageSnapshot ==
    cl_last.called =>
        /\ (~cl_last.refresh /\ cl_last.before # NoUsage) =>
               cl_last.trips = 0 /\ cl_last.ok /\ cl_last.after = cl_last.before
        /\ (~cl_last.refresh /\ cl_last.before = NoUsage) => cl_last.trips = 1
        /\ cl_last.refresh =>
               cl_last.trips = 1 /\ (cl_last.ok => cl_last.after = cl_last.remote)
        /\ cl_last.ok => cl_last.after \in UsageValues

C31_Witness ==
    /\ cl_ops = MaxCalls
    /\ ~cl_last.refresh /\ cl_last.before \in UsageValues /\ cl_last.trips = 0
    /\ api_usage = cl_last.before

\* C32 (no threshold, no wait): when no usage threshold is configured no
\* worker is ever in the quota wait: none sleeps, none reads the usage for
\* the wait, and no item is cancelled, whatever the usage snapshot is and
\* whether or not the stop event is set.
C32_NoThreshold ==
    max_api_usage_percent = None =>
        /\ \A w \in Workers :
              /\ pc[w] \notin WaitPcs
              /\ slept[w] = 0 /\ rounds[w] = 0 /\ counter[w] = 0
              /\ usage[w] = NoUsage
              /\ exc[w] # "stop"
        /\ \A i \in Entries : raised[i] # "stop" /\ log[i].msg # MsgShutdown

C32_Witness ==
    /\ max_api_usage_percent = None
    /\ stop_event
    /\ api_usage \in UsageValues /\ Percent(api_usage) >= 30
    /\ \E w \in Workers : pc[w] = "get" /\ cur[w] \notin started_at_int

\* C33 (index truthfulness): whenever a record (id, path) is added to the
\* Downloaded Index or replaced, the file at path holds the complete
\* content of the object; so a fetch that failed part-way never makes a
\* later run record the object without fetching it again.
C33_IndexTruthful ==
    [][\A i \in Ids :
          downloaded'[i] # downloaded[i] =>
              files'[downloaded'[i]] = [id |-> i, full |-> TRUE]]_vars

\* the record the worker's procedure decides on (a version's procedure
\* reads it first, an attachment's never reads it), and the position where
\* it decides between recording, copying and fetching
RecordOf(w) == IF kind = "version" THEN rec[w] ELSE downloaded[Item(w).id]
Deciding(w) == pc[w] = (IF kind = "version" THEN "exists" ELSE "get")
StaleRecord(w) ==
    /\ files[Item(w).path] = NoFile
    /\ RecordOf(w) # None
    /\ files[RecordOf(w)] = NoFile

\* C34 (stale record): a worker that decides while the destination holds
\* no file and the object's record points to a path with no file copies
\* nothing and goes on to the remote fetch; when the fetched object is
\* added, its record points to the destination.
C34_StaleRecord ==
    [][\A w \in Workers :
          /\ (Deciding(w) /\ StaleRecord(w) /\ pc'[w] # pc[w]) =>
                 /\ files' = files /\ downloaded' = downloaded
                 /\ pc'[w] = "fetch"
          /\ (pc[w] = "fetch" /\ pc'[w] # pc[w]) => fetches'[cur[w]] = fetches[cur[w]] + 1
          /\ (pc[w] = "add" /\ pc'[w] # pc[w]) =>
                 downloaded'[Item(w).id] = Item(w).path]_vars

C34_Witness ==
    \E i \in Entries :
        /\ kind = "version" /\ i \in logged /\ ~log[i].error
        /\ rec_at_start[i] \notin {None, plan[i].path}
        /\ files0[rec_at_start[i]] = NoFile /\ files0[plan[i].path] = NoFile
        /\ fetches[i] = 1
        /\ files[plan[i].path] = [id |-> plan[i].id, full |-> TRUE]
        /\ downloaded[plan[i].id] = plan[i].path

\* the destination holds no file and the record the worker decides on
\* points to a file at another path
CaseB(w) ==
    /\ files[Item(w).path] = NoFile
    /\ RecordOf(w) \notin {None, Item(w).path}
    /\ files[RecordOf(w)] # NoFile

\* C35 (Case B frame): a worker that decides in Case B satisfies the item
\* by a local copy only: it goes to the bookkeeping without a fetch, the
\* only file that changes is the destination, which gets the content of the
\* recorded path, and the Downloaded Index is unchanged.
C35_CaseBFrame ==
    [][\A w \in Workers :
          (Deciding(w) /\ CaseB(w) /\ pc'[w] # pc[w]) =>
              /\ pc'[w] = "finally"
              /\ fetches' = fetches
              /\ files' = [files EXCEPT ![Item(w).path] = files[RecordOf(w)]]
              /\ downloaded' = downloaded]_vars

\* C36 (bounded shutdown latency): once an interrupt has arrived, a worker
\* that was in the quota wait at that time starts a further one-second
\* sleep only while download() is at the statement that sets the stop flag:
\* the flag is set without waiting for the pool, so the worker leaves with
\* Cancelled instead of sleeping on until the usage drops.
C36_ShutdownLatency ==
    [][\A w \in Workers :
          (/\ interrupted /\ cur[w] \in started_at_int
           /\ pc[w] = "for" /\ counter'[w] = counter[w] + 1) =>
              mpc = "except"]_vars

\* C37 (termination): under fair scheduling, with a usage provider that
\* eventually reports a usage below the threshold on refresh, every worker
\* in the quota wait eventually leaves it, and an uninterrupted download()
\* eventually returns with processed = total.
C37_Termination ==
    /\ \A w \in Workers : (pc[w] \in WaitPcs) ~> (pc[w] \notin WaitPcs)
    /\ <>(mpc = "returned" /\ stats.processed = stats.total)

C37_Witness ==
    /\ mpc = "join"
    /\ \E w \in Workers : pc[w] = "get" /\ rounds[w] >= 1 /\ slept[w] >= 1
    /\ \E i \in Entries : i \in logged

\* C38 (verdict stability): an item that the previous validation found
\* valid or invalid with no record cached before it, reading raising in
\* neither validation, gets the same verdict from the next validation of
\* the same plan over the same files.
C38_VerdictStable ==
    \A i \in vlogged :
        (vrun > 1 /\ prev_verdict[i] \in {"valid", "invalid"} /\ i \notin vraised) =>
            verdict[i] = prev_verdict[i]

\* another worker has opened the file at path p and is still writing it
InFlight(w, p) == \E v \in Workers : v # w /\ pc[v] = "write" /\ Item(v).path = p

\* C39 (no copy from a file in flight): a worker's Case B copy never reads
\* a source file that another worker is still writing, and a worker never
\* adds a Case A record for a destination that another worker is still
\* writing.
C39_NoCopyInFlight ==
    [][\A w \in Workers :
          (pc[w] = "exists" /\ pc'[w] # pc[w]) =>
              /\ files' # files => ~InFlight(w, rec[w])
              /\ downloaded' # downloaded => ~InFlight(w, Item(w).path)]_vars

\* C40 (usage provider failure): a usage read of the quota wait that fails
\* ends the item's procedure at once: the worker goes to the bookkeeping
\* with the failure, nothing was or is fetched, copied or added to the index
\* for the item; only a worker at a download position of an item fetches
\* or changes anything for it; an item that failed is recorded as processed
\* and as an error; and a download() that returns has processed every item.
C40_UsageFailure ==
    [][/\ \A w \in Workers :
             (pc[w] \in WaitPcs /\ exc'[w] = "fail") =>
                 /\ pc'[w] = "finally"
                 /\ files' = files /\ downloaded' = downloaded
                 /\ fetches'[cur[w]] = 0 /\ cur[w] \notin mutated'
       /\ \A i \in Entries :
             (fetches'[i] # fetches[i] \/ (i \in mutated' /\ i \notin mutated)) =>
                 \E w \in Workers : cur[w] = i /\ pc[w] \in DownloadPcs
       /\ \A i \in logged' :
             raised'[i] = "fail" => log'[i].error /\ log'[i].msg = MsgFailed
       /\ mpc' = "returned" =>
             logged' = Entries /\ stats'.processed = stats'.total]_vars

C40_Witness ==
    /\ mpc = "returned"
    /\ max_api_usage_percent # None
    /\ \E i, j \in Entries :
          /\ raised[i] = "fail" /\ fetches[i] = 0 /\ i \notin mutated
          /\ log[i].error /\ files[plan[i].path] = NoFile
          /\ raised[j] = "none" /\ fetches[j] = 1 /\ ~log[j].error
    /\ stats.processed = PlanLen /\ stats.errors = 1
====
